---- MODULE Spec2Model ----
(***************************************************************************)
(* State-machine model of the Blizzard API client                          *)
(* (src/app/api/blizzard_client.py): the RateLimiter, the OAuth token      *)
(* cache of BlizzardAPIClient.get_access_token and the request executor    *)
(* BlizzardAPIClient.make_request with its tenacity retry decorator.       *)
(*                                                                         *)
(* Scheduling is asyncio's: one event loop, tasks interleave only at an    *)
(* await that really suspends (a held lock, a sleep, network I/O).  Every  *)
(* action below runs one task from one suspension point to the next.      *)
(*                                                                         *)
(* Time is counted in ticks, TicksPerSecond ticks to the second, so that   *)
(* two timestamps less than a second apart can lie on either side of a     *)
(* whole-second boundary.  Every datetime the program holds is stored as   *)
(* its offset from the current instant: datetime.now() is offset 0, a past *)
(* instant is negative, and the passing of d ticks (Tick) lowers every     *)
(* stored instant by d.  An instant is aged no further than the point     *)
(* from which the program cannot tell its age: a timestamp of the limiter  *)
(* one window old, a credential at its expiry.  The client is modelled     *)
(* after __aenter__: its aiohttp session exists.                           *)
(***************************************************************************)
EXTENDS Integers, Sequences, FiniteSets, TLC

(***************************************************************************)
(* Bounds of the model.                                                    *)
(***************************************************************************)
\* Number of concurrent asyncio tasks.
NumTasks == 2

\* Resolution of the clock: ticks per second.
TicksPerSecond == 2

\* RateLimiter.max_requests, the constructor's parameter N (the client
\* passes 100; the model runs the same class with a small N).
MaxRequests == 2

\* Distinct bearer tokens the authorization endpoint may hand out.
NumTokens == 2

\* Longest reported token lifetime, in seconds beyond the 60 s buffer.
MaxLifetime == 1

\* Largest Retry-After header value, in seconds.
MaxRetryAfter == 1

\* HISTORY_MAX_ENTRIES, the cap of a series in memory (288 in the source;
\* the model runs the same code with a small cap).
HISTORY_MAX_ENTRIES == 2

\* RESOURCE_LIMITS["MAX_DATA_POINTS_PER_ITEM"], the cap cleanup truncates
\* to (288 in the source, scaled like HISTORY_MAX_ENTRIES).
MAX_DATA_POINTS_PER_ITEM == 2

\* The number of largest series a cleanup pass looks at,
\* items_by_size[:100] in the source, scaled.
CleanupTop == 2

\* Resolution of the wall clock of the analysis server: ticks per hour.
TicksPerHour == 2

\* The wall clock runs from 0 to MaxClock ticks.
MaxClock == 3

\* Number of store_historical_data calls followed.
MaxRecords == 3

\* Largest window of a trends query and largest TTL of a cache entry,
\* in hours.
MaxHours == 1

\* RESOURCE_LIMITS["MAX_ITEMS_PER_REALM"] (500 in the source, scaled).
MAX_ITEMS_PER_REALM == 2

\* RESOURCE_LIMITS["MAX_TOTAL_ITEMS"] (2000 in the source, scaled: four
\* times MAX_ITEMS_PER_REALM, as there).
MAX_TOTAL_ITEMS == 8

\* The least number of items tracked per realm, max(top_items, 10) in the
\* source, scaled.
MinTopItems == 1

\* The points of memory the store may take before an update cleans up:
\* MAX_HISTORICAL_DATA_MB at 50 bytes a point (2,000,000 points in the
\* source, scaled).
MaxStoredPoints == 6

\* Distinct items in the auctions of a realm.
AuctionItemCount == 3

\* Requests of one update that fail.
MaxFailures == 1

\* Updates followed through their realm loop.
MaxUpdates == 1

\* Calls of make_request_with_region, or of a guild method, followed.
MaxRegionCalls == 2

(***************************************************************************)
(* Program constants.                                                      *)
(***************************************************************************)
\* RateLimiter.time_window, in seconds: RateLimiter(100, 1).
TimeWindow == 1

\* timedelta(seconds=expires_in - 60): the safety buffer.
BufferSeconds == 60

\* token_data.get("expires_in", 3600)
DefaultExpiresIn == 3600

\* response.headers.get("Retry-After", 60)
DefaultRetryAfter == 60

\* stop_after_attempt(3)
StopAfterAttempt == 3

\* RESOURCE_LIMITS["MAX_REALMS_PER_REQUEST"]
MAX_REALMS_PER_REQUEST == 5

\* RESOURCE_LIMITS["MAX_EXECUTION_TIME"], in seconds.
MAX_EXECUTION_TIME == 300

\* RESOURCE_LIMITS["MIN_SECONDS_BETWEEN_UPDATES"]
MIN_SECONDS_BETWEEN_UPDATES == 60

\* Seconds in an hour.
SecondsPerHour == 3600

\* wait_exponential(multiplier=1, min=4, max=10)
WaitMultiplier == 1
WaitMin == 4
WaitMax == 10

Tasks == 1..NumTasks

\* Optional values: Python's None and a present value.
None == <<>>
Some(v) == <<v>>
Val(o) == o[1]

Max(a, b) == IF a >= b THEN a ELSE b
Min(a, b) == IF a <= b THEN a ELSE b

\* datetime.now(): the current instant is the origin of the stored offsets.
now == 0

\* The window length T in ticks.
WindowTicks == TimeWindow * TicksPerSecond

\* The longest lifetime of a cached credential, in ticks.
LifetimeTicks == MaxLifetime * TicksPerSecond

\* A span of ticks in which the window of the limiter and the life of a
\* credential both fit.
Horizon == Max(WindowTicks, LifetimeTicks)

VARIABLES
    requests,          \* RateLimiter.requests: admitted timestamps not yet pruned
    lock,              \* RateLimiter._lock: 0 when free, else the task holding it
    access_token,      \* BlizzardAPIClient.access_token (None or a token)
    token_expires_at,  \* BlizzardAPIClient.token_expires_at (None or an instant)
    task,              \* per task: where its coroutine is suspended, its locals
    admitted,          \* history: the timestamps acquire() recorded of late
    granted            \* history: the last successful exchange, or None

limiterVars == <<requests, lock, admitted>>
tokenVars == <<access_token, token_expires_at, granted>>

\* The client executing requests: what the actions of RateLimiter,
\* get_access_token and make_request work on.
executorVars == <<requests, lock, access_token, token_expires_at, task,
                  admitted, granted>>

VARIABLES
    region,            \* BlizzardAPIClient.region, the configured region
    base_url,          \* BlizzardAPIClient.base_url
    reg                \* per task: its call of make_request_with_region

regionVars == <<region, base_url, reg>>

\* What the actions of the request executor leave alone.
VARIABLES
    clock,             \* datetime.now() of the analysis server, in ticks
    historical_data,   \* the dict of series, in insertion order
    recorded,          \* history: the points recorded, per key, in order
    trends,            \* the result of the last get_historical_trends call
    cleanups,          \* history: cleanup passes run so far
    analysis_cache,    \* key -> cached value
    analysis_cache_ttl,\* key -> expiry time
    puts,              \* history: the last cache_analysis call of a key
    cached,            \* the result of the last get_cached_analysis call
    upd,               \* per task: its call of update_historical_database
    history_file,      \* the store as save_historical_data() last wrote it
    started,           \* history: updates that entered their realm loop
    began,             \* history: when the last of them entered it
    API_AVAILABLE,     \* the Blizzard API client was imported
    credentials,       \* BLIZZARD_CLIENT_ID and BLIZZARD_CLIENT_SECRET are set
    DB_AVAILABLE,      \* the database services were imported
    AsyncSessionLocal, \* a session maker was made for a database
    compensated_sum,   \* the interpreter's sum() of floats is compensated
                       \* (CPython from 3.12 on; plain additions before);
                       \* read by analyze_with_details only; FALSE where
                       \* that is not called
    filed,             \* history: the points recorded, per (region, realm,
                       \* item_id) of the call, in order
    details            \* the result of the last analyze_with_details call

storeVars == <<historical_data, recorded, trends, cleanups>>
cacheVars == <<analysis_cache, analysis_cache_ttl, puts, cached>>
deployVars == <<API_AVAILABLE, credentials, DB_AVAILABLE, AsyncSessionLocal,
                compensated_sum>>
updateVars == <<upd, history_file, started, began, deployVars>>
analysisVars == <<filed, details>>
serverVars == <<clock, storeVars, cacheVars, updateVars, analysisVars>>

outerVars == <<regionVars, serverVars>>

vars == <<executorVars, outerVars>>

(***************************************************************************)
(* Tasks.  pc is the await at which the coroutine is suspended:            *)
(*   idle          not in a call                                           *)
(*   acq_lock      RateLimiter.acquire: `async with self._lock`            *)
(*   acq_sleep     RateLimiter.acquire: asyncio.sleep(sleep_time)          *)
(*   tok_post      get_access_token: session.post(AUTH_URL) in flight      *)
(*   req_get       make_request: session.get(url) in flight                *)
(*   req_sleep429  make_request: asyncio.sleep(retry_after)                *)
(*   req_retry     make_request: the GET re-issued after a 403 in flight   *)
(*   req_backoff   tenacity: sleeping between two attempts                 *)
(*   done          the call returned or raised; result, status, value      *)
(*                 are what its caller sees                                *)
(* op is the operation the task called (acquire, token or request), site   *)
(* the call of get_access_token() that is running (top: called directly;   *)
(* first: line 174; refresh: line 218, after a 403).  The other fields up   *)
(* to value are locals and results; those after it record, for the call    *)
(* in progress, what it has sent and received.  When the call is over its  *)
(* frame is gone: hdr and newtok are cleared.                              *)
(***************************************************************************)
InitTask ==
    [pc |-> "idle", op |-> "none", site |-> "top", wake |-> 0,
     attempt |-> 0,      \* tenacity's attempt_number
     hdr |-> 0,          \* the token in the Authorization header
     result |-> "none",  \* none | ok | the exception raised to the caller
     status |-> 0,       \* BlizzardAPIError.status_code (0: None)
     value |-> 0,        \* the token get_access_token() returned
     gets |-> 0,         \* GETs sent by this call
     acquired |-> 0,     \* acquire() calls of this call that were admitted
     refreshes |-> 0,    \* token exchanges sent after a 403
     first |-> 0,        \* status answered to the GET (-1: network failure)
     second |-> 0,       \* status answered to the re-issued GET
     reply |-> 0,        \* status answered to the last token exchange
     newtok |-> 0,       \* token granted by the exchange after a 403
     header |-> None,    \* Retry-After header of a 429
     url |-> ""]         \* base_url as line 197 read it to build the URL

\* The locals of a fresh call of operation name.
NewCall(name) == [InitTask EXCEPT !.op = name]

(***************************************************************************)
(* RateLimiter                                                             *)
(***************************************************************************)

\* timedelta.seconds of a difference of d ticks: the whole seconds of the
\* difference within its day (timedelta normalises to days, 0 <= seconds <
\* 86400, microseconds; a negative difference borrows from days).
Seconds(d) == (d \div TicksPerSecond) % 86400

\* The list comprehension of acquire(): keep the timestamps whose age has
\* fewer whole seconds than the window.
Prune(reqs, t) == SelectSeq(reqs, LAMBDA r : Seconds(t - r) < TimeWindow)

\* A slip in the capacity test: one request too many passes.
WindowFull_OffByOne(reqs) == Len(reqs) > MaxRequests

\* len(self.requests) >= self.max_requests
WindowFull(reqs) == Len(reqs) >= MaxRequests

\* sleep_time = self.time_window - (now - self.requests[0]).seconds
SleepTime(reqs, t) == TimeWindow - Seconds(t - reqs[1])

\* asyncio.sleep(s) in ticks; a non-positive delay does not wait.
SleepTicks(s) == IF s > 0 THEN s * TicksPerSecond ELSE 0

(***************************************************************************)
(* Exceptions and the retry decorator of make_request                      *)
(***************************************************************************)

\* `except aiohttp.ClientError as e: raise BlizzardAPIError(...)`: what
\* leaves the try block of make_request / get_access_token when exc is
\* raised inside it.
ExceptClientError(exc) ==
    IF exc = "ClientError" THEN "BlizzardAPIError" ELSE exc

\* A retry predicate that retries whatever was raised.
RetryIf_Any(exc) == TRUE

\* retry=retry_if_exception_type(aiohttp.ClientError)
RetryIf(exc) == exc = "ClientError"

\* 2 ** k
RECURSIVE Pow2(_)
Pow2(k) == IF k <= 0 THEN 1 ELSE 2 * Pow2(k - 1)

\* tenacity.wait_exponential(multiplier=1, min=4, max=10), in seconds, after
\* attempt number n: max(max(0, min), min(multiplier * 2 ** (n - 1), max)).
WaitExponential(n) ==
    Max(Max(0, WaitMin), Min(WaitMultiplier * Pow2(n - 1), WaitMax))

\* The call is over: res (with status_code st) is what the caller gets.
Finish(tk, res, st) ==
    [tk EXCEPT !.pc = "done", !.result = res, !.status = st,
               !.hdr = 0, !.newtok = 0]

\* The task's call raises exc (with status_code st).  get_access_token()
\* called directly raises to its caller.  An exception leaving the body of
\* make_request reaches the tenacity wrapper: one the predicate does not
\* select is re-raised at once; a selected one ends the call with
\* RetryError once stop_after_attempt is reached, and otherwise the wrapper
\* sleeps and runs the body again.
Raise(tk, exc, st) ==
    IF tk.op = "request" /\ RetryIf(exc)
    THEN IF tk.attempt >= StopAfterAttempt
         THEN Finish(tk, "RetryError", 0)
         ELSE [tk EXCEPT !.pc = "req_backoff",
                         !.wake = now + SleepTicks(WaitExponential(tk.attempt))]
    ELSE Finish(tk, exc, st)

(***************************************************************************)
(* get_access_token                                                        *)
(***************************************************************************)

\* A validity test that still accepts the credential at its expiry instant.
CacheValid_Inclusive(tok, exp, t) ==
    /\ tok # None
    /\ exp # None
    /\ t <= Val(exp)

\* if self.access_token and self.token_expires_at and
\*    datetime.now() < self.token_expires_at
CacheValid(tok, exp, t) ==
    /\ tok # None
    /\ exp # None
    /\ t < Val(exp)

\* token_data.get("expires_in", 3600)
ExpiresIn(field) == IF field = None THEN DefaultExpiresIn ELSE Val(field)

\* datetime.now() + timedelta(seconds=expires_in - 60), in ticks.
ExpiresAt(t, field) == t + (ExpiresIn(field) - BufferSeconds) * TicksPerSecond

\* get_access_token() returns token k to the call site it was called from,
\* the client's base_url being base: a direct caller gets the token;
\* make_request puts it in the Authorization header, builds its URL from
\* base_url (line 197) and sends the GET (line 200), or sends the
\* re-issued GET to the same URL (line 222) when the token was fetched
\* after a 403.
ReturnTokenTo(tk, k, base) ==
    CASE tk.site = "top" ->
            Finish([tk EXCEPT !.value = k], "ok", 0)
      [] tk.site = "first" ->
            [tk EXCEPT !.pc = "req_get", !.hdr = k, !.gets = @ + 1,
                       !.url = base]
      [] tk.site = "refresh" ->
            [tk EXCEPT !.pc = "req_retry", !.hdr = k, !.gets = @ + 1]

\* The same, base_url being what it is now.
ReturnToken(tk, k) == ReturnTokenTo(tk, k, base_url)

\* get_access_token() up to its first suspension, the client's credential
\* being (tok, exp) and its base_url base: a valid cached token is
\* returned without I/O; otherwise the exchange is posted and the task
\* waits for the answer.
GetAccessTokenAt(tk, tok, exp, base) ==
    IF CacheValid(tok, exp, now)
    THEN ReturnTokenTo(tk, Val(tok), base)
    ELSE [tk EXCEPT !.pc = "tok_post",
                    !.refreshes = IF tk.site = "refresh" THEN @ + 1 ELSE @]

\* The same, base_url being what it is now.
GetAccessToken(tk, tok, exp) == GetAccessTokenAt(tk, tok, exp, base_url)

\* Statuses other than 200 the authorization endpoint answers with (lines
\* 107-111 raise BlizzardAPIError with whatever status is not 200).
TokenFailStatuses == {401, 403}

\* The expires_in fields the endpoint reports: the buffer and up to
\* MaxLifetime seconds more.
ExpiresInReplies == {Some(BufferSeconds + d) : d \in 0..MaxLifetime}

\* The answers of the authorization endpoint: 200 with a token and its
\* lifetime, or a failure status (whose body holds no token).
TokenReplies ==
    [status : {200}, token : 1..NumTokens, expires_in : ExpiresInReplies]
        \cup [status : TokenFailStatuses, token : {0}, expires_in : {None}]

\* A task calls get_access_token() itself.
CallToken(t) ==
    /\ task[t].pc = "idle"
    /\ task' = [task EXCEPT ![t] =
            GetAccessToken(NewCall("token"), access_token, token_expires_at)]
    /\ UNCHANGED <<limiterVars, tokenVars>>
    /\ UNCHANGED outerVars

\* A status test that lets every answer through.
ExchangeOk_Unchecked(st) == TRUE

\* `if response.status != 200: raise BlizzardAPIError(...)`
ExchangeOk(st) == st = 200

\* The exchange is answered.  On 200 the body is read, the credential and
\* its expiry are stored and the token is returned; on any other status
\* BlizzardAPIError carrying the status is raised before anything is stored.
TokenReply(t) ==
    /\ task[t].pc = "tok_post"
    /\ \E r \in TokenReplies :
        IF ExchangeOk(r.status)
        THEN /\ access_token' = Some(r.token)
             /\ token_expires_at' = Some(ExpiresAt(now, r.expires_in))
             /\ granted' = Some([t0 |-> now, expires_in |-> r.expires_in,
                                 token |-> r.token])
             /\ task' = [task EXCEPT ![t] =
                    ReturnToken([@ EXCEPT !.reply = r.status,
                                          !.newtok = IF task[t].site = "refresh"
                                                     THEN r.token ELSE 0],
                                r.token)]
        ELSE /\ task' = [task EXCEPT ![t] =
                    Raise([@ EXCEPT !.reply = r.status],
                          "BlizzardAPIError", r.status)]
             /\ UNCHANGED tokenVars
    /\ UNCHANGED limiterVars
    /\ UNCHANGED outerVars

\* session.post raises aiohttp.ClientError: BlizzardAPIError without status.
TokenNetworkError(t) ==
    /\ task[t].pc = "tok_post"
    /\ task' = [task EXCEPT ![t] =
            Raise([@ EXCEPT !.reply = -1], ExceptClientError("ClientError"), 0)]
    /\ UNCHANGED <<limiterVars, tokenVars>>
    /\ UNCHANGED outerVars

\* The caller takes the result of a finished call.
Return(t) ==
    /\ task[t].pc = "done"
    /\ task' = [task EXCEPT ![t] = InitTask]
    /\ UNCHANGED <<limiterVars, tokenVars>>
    /\ UNCHANGED outerVars

(***************************************************************************)
(* RateLimiter.acquire                                                     *)
(***************************************************************************)

\* A task calls rate_limiter.acquire() and reaches `async with self._lock`.
CallAcquire(t) ==
    /\ task[t].pc = "idle"
    /\ task' = [task EXCEPT ![t].pc = "acq_lock", ![t].op = "acquire"]
    /\ UNCHANGED <<limiterVars, tokenVars>>
    /\ UNCHANGED outerVars

\* The lock is free: the task takes it, prunes, finds room, records `now`,
\* leaves the `async with` block (releasing the lock) and returns.  Nothing
\* in this path suspends, so it is one step, and in make_request the step
\* runs on into get_access_token() (line 174) up to its first suspension.
AcquireAdmit(t) ==
    /\ task[t].pc = "acq_lock"
    /\ lock = 0
    /\ LET kept == Prune(requests, now) IN
        /\ ~WindowFull(kept)
        /\ requests' = Append(kept, now)
        /\ admitted' = Append(admitted, now)
    /\ lock' = 0
    /\ task' = [task EXCEPT ![t] =
            IF @.op = "request"
            THEN GetAccessToken([@ EXCEPT !.site = "first",
                                          !.acquired = @ + 1],
                                access_token, token_expires_at)
            ELSE InitTask]
    /\ UNCHANGED tokenVars
    /\ UNCHANGED outerVars

\* The lock is free: the task takes it, prunes, finds the window full and
\* suspends in asyncio.sleep(sleep_time) INSIDE the `async with` block: the
\* lock stays held by the sleeping task.
AcquireFull(t) ==
    /\ task[t].pc = "acq_lock"
    /\ lock = 0
    /\ LET kept == Prune(requests, now) IN
        /\ WindowFull(kept)
        /\ requests' = kept
        /\ task' = [task EXCEPT ![t].pc = "acq_sleep",
                                ![t].wake = now + SleepTicks(SleepTime(kept, now))]
    /\ lock' = t
    /\ UNCHANGED <<admitted, tokenVars>>
    /\ UNCHANGED outerVars

\* The sleep is over: `return await self.acquire()` re-enters acquire() from
\* inside the `async with` block.  asyncio.Lock is not reentrant: the inner
\* `async with self._lock` waits for the lock like any other task, while the
\* outer frame of the same task still holds it.
AcquireRetry(t) ==
    /\ task[t].pc = "acq_sleep"
    /\ now >= task[t].wake
    /\ task' = [task EXCEPT ![t].pc = "acq_lock", ![t].wake = 0]
    /\ UNCHANGED <<limiterVars, tokenVars>>
    /\ UNCHANGED outerVars

(***************************************************************************)
(* make_request                                                            *)
(***************************************************************************)

\* Statuses the API answers a GET with, besides 200, 403, 404 and 429.
OtherStatuses == {204, 500}

\* The other form HTTP gives a Retry-After header: a date.
HttpDate == "Wed, 21 Oct 2015 07:28:00 GMT"

\* The Retry-After headers of a 429 (None: header absent): the texts of
\* whole numbers of seconds, and a date.
RetryAfterHeaders ==
    {None} \cup {Some(ToString(n)) : n \in 0..MaxRetryAfter}
           \cup {Some(HttpDate)}

\* The answers of the API to a GET: a status and, on 429, the header.
GetReplies ==
    [status : {200, 403, 404} \cup OtherStatuses, retry_after : {None}]
        \cup [status : {429}, retry_after : RetryAfterHeaders]

\* int(s) of a header text: the number it writes; None where it writes
\* none and int() raises ValueError.
IntOf(s) ==
    IF \E n \in 0..MaxRetryAfter : ToString(n) = s
    THEN Some(CHOOSE n \in 0..MaxRetryAfter : ToString(n) = s)
    ELSE None

\* int(response.headers.get("Retry-After", 60)); None: ValueError
RetryAfter(h) == IF h = None THEN Some(DefaultRetryAfter) ELSE IntOf(Val(h))

\* The host of a URL exists.  The URL of a client made with an empty
\* region, https://.api.blizzard.com, names none: session.get raises
\* aiohttp.ClientError for it (GetNetworkError) and no status is answered.
Reachable(url) == url # "https://.api.blizzard.com"

\* A 403 branch that forgets to drop the cached credential.
Invalidate_Keep(cred) == cred

\* self.access_token = None; self.token_expires_at = None
Invalidate(cred) == <<None, None>>

\* A task calls make_request(): the tenacity wrapper starts attempt 1, whose
\* body begins with `await self.rate_limiter.acquire()`.
StartRequest(t) ==
    /\ task[t].pc = "idle"
    /\ task' = [task EXCEPT ![t] =
            [NewCall("request") EXCEPT !.pc = "acq_lock", !.attempt = 1]]
    /\ UNCHANGED <<limiterVars, tokenVars>>
    /\ UNCHANGED outerVars

\* The GET of line 200 is answered with a status: the if-chain of lines
\* 201-240.  429: sleep for Retry-After, BlizzardAPIError(429) follows; a
\* header int() does not take raises ValueError at line 202, which the
\* except clause of line 242 and the retry predicate let pass.
\* 404: BlizzardAPIError(404).  403: drop the credential, call
\* get_access_token() (which posts an exchange) and re-issue the GET with
\* its token.  Any other status but 200: BlizzardAPIError(status).
\* 200: the body is returned.
GetReply(t) ==
    /\ task[t].pc = "req_get"
    /\ Reachable(task[t].url)
    /\ \E r \in GetReplies :
        LET tk == [task[t] EXCEPT !.first = r.status] IN
        CASE r.status = 429 ->
                LET retry_after == RetryAfter(r.retry_after) IN
                /\ task' = [task EXCEPT ![t] =
                        IF retry_after = None
                        THEN Raise([tk EXCEPT !.header = r.retry_after],
                                   ExceptClientError("ValueError"), 0)
                        ELSE [tk EXCEPT !.pc = "req_sleep429",
                                        !.header = r.retry_after,
                                        !.wake = now + SleepTicks(
                                                        Val(retry_after))]]
                /\ UNCHANGED tokenVars
          [] r.status = 404 ->
                /\ task' = [task EXCEPT ![t] = Raise(tk, "BlizzardAPIError", 404)]
                /\ UNCHANGED tokenVars
          [] r.status = 403 ->
                LET cred == Invalidate(<<access_token, token_expires_at>>) IN
                /\ access_token' = cred[1]
                /\ token_expires_at' = cred[2]
                /\ task' = [task EXCEPT ![t] =
                        GetAccessToken([tk EXCEPT !.site = "refresh"],
                                       cred[1], cred[2])]
                /\ UNCHANGED granted
          [] r.status \notin {429, 404, 403, 200} ->
                /\ task' = [task EXCEPT ![t] =
                        Raise(tk, "BlizzardAPIError", r.status)]
                /\ UNCHANGED tokenVars
          [] r.status = 200 ->
                /\ task' = [task EXCEPT ![t] =
                        Finish(tk, "ok", 0)]
                /\ UNCHANGED tokenVars
    /\ UNCHANGED limiterVars
    /\ UNCHANGED outerVars

\* session.get raises aiohttp.ClientError: the except clause of line 242
\* turns it into BlizzardAPIError without status, and that is what reaches
\* the retry wrapper.
GetNetworkError(t) ==
    /\ task[t].pc = "req_get"
    /\ task' = [task EXCEPT ![t] =
            Raise([@ EXCEPT !.first = -1], ExceptClientError("ClientError"), 0)]
    /\ UNCHANGED <<limiterVars, tokenVars>>
    /\ UNCHANGED outerVars

\* The GET re-issued after the token refresh (line 222) is answered: 200
\* returns the body, any other status raises BlizzardAPIError(status).
RetryReply(t) ==
    /\ task[t].pc = "req_retry"
    /\ Reachable(task[t].url)
    /\ \E st \in {200, 403, 404, 429} \cup OtherStatuses :
        task' = [task EXCEPT ![t] =
            IF st # 200
            THEN Raise([@ EXCEPT !.second = st], "BlizzardAPIError", st)
            ELSE Finish([@ EXCEPT !.second = st], "ok", 0)]
    /\ UNCHANGED <<limiterVars, tokenVars>>
    /\ UNCHANGED outerVars

\* The re-issued GET raises aiohttp.ClientError (same except clause).
RetryNetworkError(t) ==
    /\ task[t].pc = "req_retry"
    /\ task' = [task EXCEPT ![t] =
            Raise([@ EXCEPT !.second = -1], ExceptClientError("ClientError"), 0)]
    /\ UNCHANGED <<limiterVars, tokenVars>>
    /\ UNCHANGED outerVars

\* A sleep of make_request is over.  After the Retry-After sleep of a 429,
\* BlizzardAPIError(429) is raised (line 205).  After tenacity's backoff the
\* wrapper runs the body again as the next attempt, from acquire().
RequestWake(t) ==
    /\ task[t].pc \in {"req_sleep429", "req_backoff"}
    /\ now >= task[t].wake
    /\ task' = [task EXCEPT ![t] =
            IF @.pc = "req_sleep429"
            THEN Raise([@ EXCEPT !.wake = 0], "BlizzardAPIError", 429)
            ELSE [@ EXCEPT !.pc = "acq_lock", !.wake = 0, !.attempt = @ + 1]]
    /\ UNCHANGED <<limiterVars, tokenVars>>
    /\ UNCHANGED outerVars

(***************************************************************************)
(* make_request_with_region                                                *)
(*                                                                         *)
(* The call saves base_url, switches it to the region it was given, awaits *)
(* make_request() and restores base_url in its finally clause; on a 403 of *)
(* a call without region it calls itself once with the alternate region.   *)
(* The make_request() it awaits is the request executor above, run by the  *)
(* same task: the step that calls it goes on through acquire() and         *)
(* get_access_token() to the first await that suspends, and builds the     *)
(* URL from what base_url is when line 197 is reached.  When the executor  *)
(* has ended the call (pc done), the wrapper takes the body or the         *)
(* exception; the step between the two changes nothing another task reads. *)
(***************************************************************************)

\* The regions a call is given, and the ones the fallback switches to.
Regions == {"us", "eu"}

\* What BLIZZARD_REGION holds when the client is constructed (line 63): a
\* region, or nothing (the variable is set and empty).
ConfiguredRegions == Regions \cup {""}

\* os.getenv("BLIZZARD_REGION", "us")
DefaultRegion == "us"

\* f"https://{region}.api.blizzard.com"
BaseUrl(r) == "https://" \o r \o ".api.blizzard.com"

\* alternate_region = 'eu' if self.region == 'us' else 'us'
AlternateRegion(r) == IF r = "us" THEN "eu" ELSE "us"

\* if e.status_code == 403 and not detected_region
ShouldFallback(st, detected) == st = 403 /\ detected = None

\* A task's call of make_request_with_region.  pc: idle, call (a
\* make_request() of the call is running), done.
\* saved holds original_base_url of each frame of the call, outermost
\* first.  The other fields record what the call did: detected_region of
\* each frame it entered, the make_request() calls made, the URL of each
\* that built one, the outcome of each (200: the body returned, the status
\* of the BlizzardAPIError raised, 0 for none, or the name of another
\* exception), and which of them the result handed to the caller comes
\* from.
InitReg ==
    [pc |-> "idle", saved |-> <<>>, detected |-> <<>>,
     calls |-> 0, urls |-> <<>>, outcomes |-> <<>>,
     result |-> "none", status |-> 0, from |-> 0,
     op |-> "none",      \* the guild method that made the call
     realm |-> "",       \* and the realm it was called with
     made |-> 0]         \* history: the calls the task has made

\* Lines 167-200: task t calls make_request(), the client's base_url being
\* base, and runs to the first await that suspends.  acquire() waits for a
\* lock that is held; with the lock free it prunes and either finds the
\* window full and sleeps, holding the lock, or records `now` and returns,
\* and get_access_token() returns the cached token (the URL is built and
\* the GET sent) or posts an exchange.  The result is what the step leaves
\* in the limiter and in the task.
MakeRequest(t, base) ==
    LET tk == [NewCall("request") EXCEPT !.attempt = 1]
        kept == Prune(requests, now)
    IN  IF lock # 0
        THEN [requests |-> requests, admitted |-> admitted, lock |-> lock,
              task |-> [tk EXCEPT !.pc = "acq_lock"]]
        ELSE IF WindowFull(kept)
        THEN [requests |-> kept, admitted |-> admitted, lock |-> t,
              task |-> [tk EXCEPT !.pc = "acq_sleep",
                                  !.wake = now + SleepTicks(
                                                    SleepTime(kept, now))]]
        ELSE [requests |-> Append(kept, now),
              admitted |-> Append(admitted, now), lock |-> 0,
              task |-> GetAccessTokenAt([tk EXCEPT !.site = "first",
                                                   !.acquired = 1],
                                        access_token, token_expires_at,
                                        base)]

\* The step of task t leaves the executor as m, a result of MakeRequest.
Requested(t, m) ==
    /\ requests' = m.requests
    /\ admitted' = m.admitted
    /\ lock' = m.lock
    /\ task' = [task EXCEPT ![t] = m.task]
    /\ UNCHANGED tokenVars

\* Lines 136-143: a frame of make_request_with_region(endpoint, params,
\* detected) is entered with the client's base_url being url: the frame
\* saves it and returns the URL it leaves in base_url.
SwitchedUrl(url, detected) ==
    IF detected # None /\ Val(detected) # region
    THEN BaseUrl(Val(detected))
    ELSE url

\* The frame of rc entered with detected_region = detected, which goes on
\* to call make_request() (line 145).
EnterFrame(rc, url, detected) ==
    [rc EXCEPT !.pc = "call", !.calls = @ + 1,
               !.saved = Append(@, url), !.detected = Append(@, detected)]

\* The finally clauses of all frames of rc run, innermost first: base_url
\* ends as the outermost frame saved it.
RestoredUrl(rc) == rc.saved[1]

\* The make_request() call of rc that tk ran is over with this outcome.
Outcome(rc, tk, out) ==
    [rc EXCEPT !.outcomes = Append(@, out),
               !.urls = IF tk.url = "" THEN @ ELSE Append(@, tk.url)]

\* The call of rc is over: res (with status_code st), which make_request()
\* call number n produced, goes to the caller.
FinishRegion(rc, res, st, n) ==
    [rc EXCEPT !.pc = "done", !.result = res, !.status = st, !.from = n,
               !.saved = <<>>]

\* make_request() of task t has ended.
Ended(t) == reg[t].pc = "call" /\ task[t].pc = "done"

\* A call the task of rc makes next.
NextCall(rc) == [InitReg EXCEPT !.made = rc.made + 1]

\* The calls made so far.
RECURSIVE CallsMade(_)
CallsMade(k) == IF k = 0 THEN 0 ELSE reg[k].made + CallsMade(k - 1)

\* A task calls make_request_with_region(endpoint, params, d).
CallRegion(t) ==
    /\ reg[t].pc = "idle"
    /\ task[t].pc = "idle"
    /\ CallsMade(NumTasks) < MaxRegionCalls
    /\ \E d \in {None} \cup {Some(r) : r \in Regions} :
        /\ base_url' = SwitchedUrl(base_url, d)
        /\ reg' = [reg EXCEPT ![t] =
                EnterFrame(NextCall(@), base_url, d)]
        /\ Requested(t, MakeRequest(t, SwitchedUrl(base_url, d)))
    /\ UNCHANGED <<region, serverVars>>

\* make_request() returned the body: every frame returns it, each finally
\* clause restoring base_url (lines 145, 153, 158-160).
RegionReturns(t) ==
    /\ Ended(t)
    /\ task[t].result = "ok"
    /\ base_url' = RestoredUrl(reg[t])
    /\ reg' = [reg EXCEPT ![t] =
            FinishRegion(Outcome(@, task[t], 200), "ok", 0, @.calls)]
    /\ task' = [task EXCEPT ![t] = InitTask]
    /\ UNCHANGED <<region, limiterVars, tokenVars, serverVars>>

\* make_request() raised BlizzardAPIError with status st (lines 147-160).
\* In a frame without region, a 403 starts the fallback: the function
\* calls itself with the alternate region, a new frame that saves and
\* switches base_url and calls make_request() again.  Any other error is
\* raised again after the finally clause.  In the fallback frame the error
\* is raised again (a region was given), and the outer frame raises the
\* error it caught first; both finally clauses run.
RegionRaises(t) ==
    /\ Ended(t)
    /\ task[t].result = "BlizzardAPIError"
    /\ LET rc == Outcome(reg[t], task[t], task[t].status) IN
        IF ShouldFallback(task[t].status, rc.detected[Len(rc.detected)])
        THEN LET alt == Some(AlternateRegion(region)) IN
             /\ base_url' = SwitchedUrl(base_url, alt)
             /\ reg' = [reg EXCEPT ![t] = EnterFrame(rc, base_url, alt)]
             /\ Requested(t, MakeRequest(t, SwitchedUrl(base_url, alt)))
        ELSE /\ base_url' = RestoredUrl(rc)
             /\ reg' = [reg EXCEPT ![t] =
                    FinishRegion(rc, "BlizzardAPIError", rc.outcomes[1], 1)]
             /\ task' = [task EXCEPT ![t] = InitTask]
             /\ UNCHANGED <<limiterVars, tokenVars>>
    /\ UNCHANGED <<region, serverVars>>

\* What make_request() ends with besides a body and BlizzardAPIError: the
\* ValueError of int() at line 202 on a Retry-After header that is not a
\* whole number.
PassingErrors == {"ValueError"}

\* make_request() raised an exception that is no BlizzardAPIError: neither
\* except clause (lines 147, 154) catches it, so it passes every frame,
\* each finally clause restoring base_url, and reaches the caller.
RegionPasses(t) ==
    /\ Ended(t)
    /\ task[t].result \in PassingErrors
    /\ base_url' = RestoredUrl(reg[t])
    /\ reg' = [reg EXCEPT ![t] =
            FinishRegion(Outcome(@, task[t], task[t].result),
                         task[t].result, 0, @.calls)]
    /\ task' = [task EXCEPT ![t] = InitTask]
    /\ UNCHANGED <<region, limiterVars, tokenVars, serverVars>>

\* The caller takes the result of a finished call.
RegionDone(t) ==
    /\ reg[t].pc = "done"
    /\ reg' = [reg EXCEPT ![t] = [InitReg EXCEPT !.made = reg[t].made]]
    /\ UNCHANGED <<region, base_url, executorVars, serverVars>>

(***************************************************************************)
(* The guild methods: get_guild_info, get_guild_roster,                    *)
(* get_guild_achievements, get_guild_activity.  Each builds its endpoint,  *)
(* detects the region of the realm and awaits                              *)
(* make_request_with_region(endpoint, None, detected_region).              *)
(***************************************************************************)

\* Lines 246-281: the four methods.
GuildOps ==
    {"get_guild_info", "get_guild_roster", "get_guild_achievements",
     "get_guild_activity"}

\* Lines 78-82: self.eu_realms.
EuRealms ==
    {"tarren-mill", "draenor", "kazzak", "argent-dawn", "silvermoon",
     "stormrage-eu", "ragnaros-eu", "twisting-nether", "outland",
     "frostmane", "ravencrest", "chamber-of-aspects", "defias-brotherhood"}

\* The realms the methods are called with: in the list in another case,
\* and not in it.
GuildRealms == {"Tarren-Mill", "stormrage"}

\* Line 126: realm.lower(), on the realms above.
RealmLower(realm) == IF realm = "Tarren-Mill" THEN "tarren-mill" ELSE realm

\* Lines 124-130: detect_realm_region(realm).
DetectRealmRegion(realm) == IF RealmLower(realm) \in EuRealms THEN "eu" ELSE region

\* Lines 136, 142, 149: the tests `detected_region or ...`,
\* `if detected_region` and `not detected_region` take an empty string as
\* no region given.
Given(d) == IF d = "" THEN None ELSE Some(d)

\* A task calls one of the guild methods for a realm (lines 246-281): the
\* region is detected and make_request_with_region is entered with it.
CallGuild(t) ==
    /\ reg[t].pc = "idle"
    /\ task[t].pc = "idle"
    /\ CallsMade(NumTasks) < MaxRegionCalls
    /\ \E op \in GuildOps, realm \in GuildRealms :
        LET d == Given(DetectRealmRegion(realm))
            rc == [NextCall(reg[t]) EXCEPT !.op = op, !.realm = realm]
        IN  /\ base_url' = SwitchedUrl(base_url, d)
            /\ reg' = [reg EXCEPT ![t] = EnterFrame(rc, base_url, d)]
            /\ Requested(t, MakeRequest(t, SwitchedUrl(base_url, d)))
    /\ UNCHANGED <<region, serverVars>>

(***************************************************************************)
(* analysis_mcp_server: the historical store                               *)
(*                                                                         *)
(* historical_data is a dict, which keeps its keys in insertion order: a   *)
(* sequence of entries, each with its key, its data_points and the         *)
(* metadata store_historical_data writes.  A datetime is a number of ticks *)
(* of the clock; the timestamp stored in a point is its isoformat() text,  *)
(* which get_historical_trends parses back with fromisoformat().           *)
(***************************************************************************)

\* The arguments the store is called with.
StoreRegions == {"us"}
StoreRealms == {"stormrage"}
ItemIds == {1, 2}
Prices == {1, 2}
Quantities == {1}

\* str() of a digit.
DigitStr(d) == <<"0", "1", "2", "3", "4", "5", "6", "7", "8", "9">>[d + 1]

\* str() of a natural number, as the f-string formats item_id.
RECURSIVE IntStr(_)
IntStr(n) == IF n < 10 THEN DigitStr(n)
             ELSE IntStr(n \div 10) \o DigitStr(n % 10)

\* key = f"{region}_{realm}_{item_id}"
Key(r, realm, item_id) == r \o "_" \o realm \o "_" \o IntStr(item_id)

\* datetime.isoformat(): the text of a datetime, with its hour and the
\* ticks past the hour as separate fields.
IsoFormat(dt) == [hour |-> dt \div TicksPerHour, tick |-> dt % TicksPerHour]

\* datetime.fromisoformat()
FromIsoFormat(ts) == ts.hour * TicksPerHour + ts.tick

\* timedelta(hours=h), in ticks.
Hours(h) == h * TicksPerHour

\* Python's s[-n:]: the last n elements of s (all of s if n is 0 or s is
\* no longer than n).
LastN(s, n) ==
    IF n = 0 \/ Len(s) <= n THEN s ELSE SubSeq(s, Len(s) - n + 1, Len(s))

\* Python's s[:n]: the first n elements of s (all of s if it is no
\* longer than n), and for a negative n all but the last -n.
FirstN(s, n) ==
    IF n < 0 THEN SubSeq(s, 1, Max(Len(s) + n, 0))
    ELSE IF Len(s) <= n THEN s ELSE SubSeq(s, 1, n)

\* The position of key in the dict hd, 0 if it is not a key of hd.
IndexOf(hd, key) ==
    IF \E i \in 1..Len(hd) : hd[i].key = key
    THEN CHOOSE i \in 1..Len(hd) : hd[i].key = key
    ELSE 0

\* key in historical_data
HasKey(hd, key) == IndexOf(hd, key) # 0

\* defaultdict(lambda: defaultdict(list)).__getitem__: reading
\* historical_data[key]["data_points"] of a missing key inserts an entry
\* with an empty list.
Lookup(hd, key) ==
    IF HasKey(hd, key) THEN hd
    ELSE Append(hd, [key |-> key, data_points |-> <<>>,
                     last_updated |-> None, item_id |-> None,
                     region |-> None, realm |-> None])

\* A truncation that keeps the oldest points.
Truncate_Oldest(dp) ==
    IF Len(dp) > HISTORY_MAX_ENTRIES THEN FirstN(dp, HISTORY_MAX_ENTRIES)
    ELSE dp

\* Lines 119-120: keep only the most recent HISTORY_MAX_ENTRIES points.
Truncate(dp) ==
    IF Len(dp) > HISTORY_MAX_ENTRIES THEN LastN(dp, HISTORY_MAX_ENTRIES)
    ELSE dp

\* Numbers.  Python divides into floats; the model keeps the quotient
\* exact, as a reduced fraction num/den with den > 0.  den = 0 is the
\* outcome of a division by zero: ZeroDivisionError.
RECURSIVE GCD(_, _)
GCD(a, b) == IF b = 0 THEN a ELSE GCD(b, a % b)

Abs(n) == IF n < 0 THEN -n ELSE n

ZeroDivision == [num |-> 0, den |-> 0]

\* n / d of two integers.
Ratio(n, d) ==
    IF d = 0 THEN ZeroDivision
    ELSE LET g == GCD(Abs(n), Abs(d))
             sign == IF d < 0 THEN -1 ELSE 1
         IN  [num |-> sign * (n \div g), den |-> Abs(d) \div g]

Whole(n) == [num |-> n, den |-> 1]
Zero == Whole(0)

Raised(x) == x.den = 0

\* x + y, x - y, x * y, x / y; a ZeroDivisionError in an operand is the
\* outcome of the expression.
AddR(x, y) ==
    IF Raised(x) \/ Raised(y) THEN ZeroDivision
    ELSE Ratio(x.num * y.den + y.num * x.den, x.den * y.den)
SubR(x, y) ==
    IF Raised(x) \/ Raised(y) THEN ZeroDivision
    ELSE Ratio(x.num * y.den - y.num * x.den, x.den * y.den)
MulR(x, y) ==
    IF Raised(x) \/ Raised(y) THEN ZeroDivision
    ELSE Ratio(x.num * y.num, x.den * y.den)
DivR(x, y) ==
    IF Raised(x) \/ Raised(y) THEN ZeroDivision
    ELSE Ratio(x.num * y.den, x.den * y.num)

\* x < y and x > 0 of two numbers.
LessR(x, y) == x.num * y.den < y.num * x.den
Positive(x) == x.num > 0

\* sum() of a list of integers.
RECURSIVE SumOf(_)
SumOf(l) == IF l = <<>> THEN 0 ELSE l[1] + SumOf(Tail(l))

\* Lines 183-184: the window of the averages of the price direction.
TrendWindow == 5

\* No result: no query has been made since the store or the clock changed.
NoTrends ==
    [asked |-> FALSE, key |-> "", hours |-> 0, error |-> "",
     data_points |-> 0, min_price |-> 0, max_price |-> 0,
     current_price |-> 0, used |-> <<>>,
     avg_price |-> Zero, price_volatility |-> Zero, price_trend |-> Zero,
     avg_quantity |-> Zero]

\* No result of get_cached_analysis.
NoCached == [asked |-> FALSE, key |-> "", value |-> None]

\* The total number of points recorded so far.
RECURSIVE SumLen(_, _)
SumLen(f, K) ==
    IF K = {} THEN 0
    ELSE LET k == CHOOSE x \in K : TRUE IN Len(f[k]) + SumLen(f, K \ {k})

\* Lines 109-113: the data point stored at time.
DataPoint(price, quantity, time) ==
    [timestamp |-> IsoFormat(time), price |-> price, quantity |-> quantity]

\* A store that stamps every series with the time of the latest write.
Stored_Touching(hd, r, realm, item_id, price, quantity, time) ==
    LET key == Key(r, realm, item_id)
        data_point == DataPoint(price, quantity, time)
        hd1 == Lookup(hd, key)
        i == IndexOf(hd1, key)
    IN  [j \in 1..Len(hd1) |->
            IF j = i
            THEN [key |-> key,
                  data_points |->
                      Truncate(Append(hd1[i].data_points, data_point)),
                  last_updated |-> Some(data_point.timestamp),
                  item_id |-> Some(item_id),
                  region |-> Some(r),
                  realm |-> Some(realm)]
            ELSE [hd1[j] EXCEPT !.last_updated = Some(data_point.timestamp)]]

\* Lines 106-126: the store hd after
\* store_historical_data(r, realm, item_id, price, quantity) at time.
Stored(hd, r, realm, item_id, price, quantity, time) ==
    LET key == Key(r, realm, item_id)
        data_point == DataPoint(price, quantity, time)
        hd1 == Lookup(hd, key)
        i == IndexOf(hd1, key)
    IN  [hd1 EXCEPT ![i] =
            [key |-> key,
             data_points |-> Truncate(Append(hd1[i].data_points, data_point)),
             last_updated |-> Some(data_point.timestamp),
             item_id |-> Some(item_id),
             region |-> Some(r),
             realm |-> Some(realm)]]

\* store_historical_data(region, realm, item_id, price, quantity)
StoreHistoricalData ==
    /\ SumLen(recorded, DOMAIN recorded) < MaxRecords
    /\ \E r \in StoreRegions, realm \in StoreRealms, item_id \in ItemIds,
          price \in Prices, quantity \in Quantities :
        /\ historical_data' = Stored(historical_data, r, realm, item_id,
                                     price, quantity, clock)
        /\ recorded' = [recorded EXCEPT ![Key(r, realm, item_id)] =
                            Append(@, DataPoint(price, quantity, clock))]
    /\ trends' = NoTrends
    /\ cached' = NoCached
    /\ UNCHANGED <<clock, cleanups, analysis_cache, analysis_cache_ttl, puts>>
    /\ UNCHANGED <<executorVars, regionVars, updateVars, analysisVars>>

\* Line 167: datetime.fromisoformat(dp["timestamp"]) > cutoff_time
InTimeRange(dp, cutoff_time) == FromIsoFormat(dp.timestamp) > cutoff_time

\* Lines 164-168: the points of the series inside the time range.
RecentPoints(data_points, cutoff_time) ==
    SelectSeq(data_points, LAMBDA dp : InTimeRange(dp, cutoff_time))

\* min() and max() of the prices of a non-empty list of points.
MinPrice(points) ==
    CHOOSE m \in {points[i].price : i \in 1..Len(points)} :
        \A i \in 1..Len(points) : m <= points[i].price
MaxPrice(points) ==
    CHOOSE m \in {points[i].price : i \in 1..Len(points)} :
        \A i \in 1..Len(points) : m >= points[i].price

\* A membership test that reads the entry before it looks for the key.
Probe_Reading(hd, key) == Lookup(hd, key)

\* Line 158: "key not in historical_data or not historical_data[key][...]"
\* reads the entry only if the key is there, so the dict is as it was.
Probe(hd, key) == IF ~HasKey(hd, key) THEN hd ELSE Lookup(hd, key)

\* A volatility relative to the lowest price.
PriceVolatility_OfMin(avg_price, min_price, max_price) ==
    IF Positive(avg_price)
    THEN DivR(Whole(max_price - min_price), Whole(min_price))
    ELSE Zero

\* Line 180
PriceVolatility(avg_price, min_price, max_price) ==
    IF Positive(avg_price)
    THEN DivR(Whole(max_price - min_price), avg_price)
    ELSE Zero

\* A price direction relative to the recent average.
PriceTrend_OverRecent(prices) ==
    IF Len(prices) >= 2
    THEN LET recent == LastN(prices, TrendWindow)
             recent_avg == Ratio(SumOf(recent), Len(recent))
             older_avg == Ratio(SumOf(FirstN(prices, TrendWindow)),
                                Min(TrendWindow, Len(prices)))
         IN  IF Positive(older_avg)
             THEN DivR(SubR(recent_avg, older_avg), recent_avg)
             ELSE Zero
    ELSE Zero

\* Lines 183-188: the price direction of a list of prices.
PriceTrend(prices) ==
    IF Len(prices) >= 2
    THEN LET recent == LastN(prices, TrendWindow)
             recent_avg == Ratio(SumOf(recent), Len(recent))
             older_avg == Ratio(SumOf(FirstN(prices, TrendWindow)),
                                Min(TrendWindow, Len(prices)))
         IN  IF Positive(older_avg)
             THEN DivR(SubR(recent_avg, older_avg), older_avg)
             ELSE Zero
    ELSE Zero

\* The dict returned by get_historical_trends (lines 158-201), with the
\* points it used; a ZeroDivisionError leaves the call as an exception.
Trends(hd, key, hours, time) ==
    LET i == IndexOf(hd, key)
        q == [NoTrends EXCEPT !.asked = TRUE, !.key = key, !.hours = hours]
    IN  IF i = 0 \/ hd[i].data_points = <<>>
        THEN [q EXCEPT !.error = "No historical data available"]
        ELSE LET recent_points ==
                     RecentPoints(hd[i].data_points, time - Hours(hours))
                 prices == [j \in 1..Len(recent_points) |->
                                recent_points[j].price]
                 quantities == [j \in 1..Len(recent_points) |->
                                    recent_points[j].quantity]
                 avg_price == Ratio(SumOf(prices), Len(prices))
                 min_price == MinPrice(recent_points)
                 max_price == MaxPrice(recent_points)
                 price_volatility ==
                     PriceVolatility(avg_price, min_price, max_price)
                 price_trend == PriceTrend(prices)
                 avg_quantity == Ratio(SumOf(quantities), Len(quantities))
             IN  IF recent_points = <<>>
                 THEN [q EXCEPT !.error = "No data in specified time range"]
                 ELSE IF \/ Raised(avg_price) \/ Raised(price_volatility)
                         \/ Raised(price_trend) \/ Raised(avg_quantity)
                 THEN [q EXCEPT !.error = "ZeroDivisionError"]
                 ELSE [q EXCEPT !.data_points = Len(recent_points),
                                !.avg_price = avg_price,
                                !.min_price = min_price,
                                !.max_price = max_price,
                                !.current_price =
                                    recent_points[Len(recent_points)].price,
                                !.price_volatility = price_volatility,
                                !.price_trend = price_trend,
                                !.avg_quantity = avg_quantity,
                                !.used = recent_points]

\* get_historical_trends(region, realm, item_id, hours)
GetHistoricalTrends ==
    /\ \E r \in StoreRegions, realm \in StoreRealms, item_id \in ItemIds,
          hours \in 1..MaxHours :
        LET key == Key(r, realm, item_id) IN
        /\ historical_data' = Probe(historical_data, key)
        /\ trends' = Trends(historical_data', key, hours, clock)
    /\ cached' = NoCached
    /\ UNCHANGED <<clock, recorded, cleanups, analysis_cache,
                   analysis_cache_ttl, puts>>
    /\ UNCHANGED <<executorVars, regionVars, updateVars, analysisVars>>

\* Lines 226-230: the place of entry i when the entries are sorted by their
\* number of points, largest first; sorted() is stable, so entries of equal
\* size keep the order of the dict.
SortedPlace(hd, i) ==
    Cardinality({ j \in 1..Len(hd) :
        \/ Len(hd[j].data_points) > Len(hd[i].data_points)
        \/ Len(hd[j].data_points) = Len(hd[i].data_points) /\ j < i }) + 1

\* A pass that looks at every series.
Considered_All(hd, i) == TRUE

\* Line 233: items_by_size[:100]
Considered(hd, i) == SortedPlace(hd, i) <= CleanupTop

\* A pass that keeps one point less than the cap of a series.
Cleaned_Tighter(hd) ==
    [i \in 1..Len(hd) |->
        IF /\ Considered(hd, i)
           /\ Len(hd[i].data_points) >= MAX_DATA_POINTS_PER_ITEM
        THEN [hd[i] EXCEPT !.data_points =
                               LastN(@, MAX_DATA_POINTS_PER_ITEM - 1)]
        ELSE hd[i]]

\* Lines 233-238: the store after a cleanup pass.
Cleaned(hd) ==
    [i \in 1..Len(hd) |->
        IF /\ Considered(hd, i)
           /\ Len(hd[i].data_points) > MAX_DATA_POINTS_PER_ITEM
        THEN [hd[i] EXCEPT !.data_points =
                               LastN(@, MAX_DATA_POINTS_PER_ITEM)]
        ELSE hd[i]]

\* Cleanup passes followed.
MaxCleanups == 2

\* cleanup_old_historical_data()
CleanupOldHistoricalData ==
    /\ cleanups < MaxCleanups
    /\ historical_data' = Cleaned(historical_data)
    /\ cleanups' = cleanups + 1
    /\ trends' = NoTrends
    /\ cached' = NoCached
    /\ UNCHANGED <<clock, recorded, analysis_cache, analysis_cache_ttl, puts>>
    /\ UNCHANGED <<executorVars, regionVars, updateVars, analysisVars>>

\* The clock of the server advances by a tick.
Advance ==
    /\ clock < MaxClock
    /\ clock' = clock + 1
    /\ trends' = NoTrends
    /\ cached' = NoCached
    /\ UNCHANGED <<historical_data, recorded, cleanups, analysis_cache,
                   analysis_cache_ttl, puts>>
    /\ UNCHANGED <<executorVars, regionVars, updateVars, analysisVars>>

(***************************************************************************)
(* analyze_with_details, analysis_type "opportunities"                     *)
(***************************************************************************)

(***************************************************************************)
(* The metrics and the scores of analyze_with_details are Python floats.   *)
(* Each operation of the code is made here as the interpreter makes it:    *)
(* the exact result, rounded to the nearest double (ties to even).  The    *)
(* roundings show where the exact values would not: a sum of terms that    *)
(* cancel exactly can leave a residue of either sign, which the tests      *)
(* `trend > 0` and `trend < 0` of the classification see, and two scores   *)
(* that are equal as fractions can differ in their last bit, which the     *)
(* sort of line 1517 sees.                                                 *)
(***************************************************************************)

\* The significant bits of a double.
MantissaBits == 53

\* A natural number is kept as NatLimbs limbs of LimbBits bits, the lowest
\* first: a significand takes MantLimbs of them, a product of two
\* significands NatLimbs.
LimbBits == 12
MantLimbs == (MantissaBits + LimbBits - 1) \div LimbBits
NatLimbs == 2 * MantLimbs
Base == Pow2(LimbBits)

\* 2^k for k in 0..LimbBits.
Powers == SubSeq([j \in 1..(LimbBits + 1) |-> Pow2(j - 1)], 1, LimbBits + 1)
TwoTo(k) == Powers[k + 1]

Limbed(f) == SubSeq(f, 1, NatLimbs)
NatZero == Limbed([i \in 1..NatLimbs |-> 0])

\* The limbs of sums that may exceed a limb, or fall below 0, brought
\* back into 0..Base-1 with a carry from the lowest limb up.
RECURSIVE CarriedFrom(_, _, _)
CarriedFrom(sums, i, carry) ==
    IF i > NatLimbs THEN <<>>
    ELSE LET v == sums[i] + carry IN
         <<v % Base>> \o CarriedFrom(sums, i + 1, (v - (v % Base)) \div Base)
Carried(sums0) ==
    CHOOSE r \in {CarriedFrom(sums, 1, 0) : sums \in {Limbed(sums0)}} : TRUE

\* The natural number k, and the limb i of a where it has one.
NatOf(k) == Carried([i \in 1..NatLimbs |-> IF i = 1 THEN k ELSE 0])
NatOne == NatOf(1)
Limb(a, i) == IF i >= 1 /\ i <= NatLimbs THEN a[i] ELSE 0

\* a + b, a - b for a >= b, a * k for a limb k, and a * b of two
\* significands.
NatAdd(a, b) == Carried([i \in 1..NatLimbs |-> a[i] + b[i]])
NatSub(a, b) == Carried([i \in 1..NatLimbs |-> a[i] - b[i]])
NatTimes(a, k) == Carried([i \in 1..NatLimbs |-> a[i] * k])
NatMul(a, b) ==
    Carried([k \in 1..NatLimbs |->
                SumOf([i \in 1..Min(k, MantLimbs) |-> a[i] * b[k + 1 - i]])])

NatLess(a, b) ==
    \E i \in 1..NatLimbs :
        /\ a[i] < b[i]
        /\ \A j \in (i + 1)..NatLimbs : a[j] = b[j]

\* a * 2^s and a \div 2^s: by q limbs and r bits.
ShiftedUp(a, q, r) ==
    Limbed([i \in 1..NatLimbs |->
              ((Limb(a, i - q) * TwoTo(r)) % Base)
                  + (Limb(a, i - q - 1) \div TwoTo(LimbBits - r))])
ShiftedDown(a, q, r) ==
    Limbed([i \in 1..NatLimbs |->
              (Limb(a, i + q) \div TwoTo(r))
                  + (Limb(a, i + q + 1) % TwoTo(r)) * TwoTo(LimbBits - r)])
NatShl(a, s) ==
    IF s = 0 THEN a
    ELSE CHOOSE v \in {ShiftedUp(a, q, r) :
                        q \in {s \div LimbBits}, r \in {s % LimbBits}} : TRUE
NatShr(a, s) ==
    IF s = 0 THEN a
    ELSE CHOOSE v \in {ShiftedDown(a, q, r) :
                        q \in {s \div LimbBits}, r \in {s % LimbBits}} : TRUE

\* The number of bits of a, and its bit at place p, the last being at
\* place 1.
LimbLength(v) == CHOOSE k \in 1..LimbBits : TwoTo(k - 1) <= v /\ v < TwoTo(k)
NatBits(a) ==
    IF a = NatZero THEN 0
    ELSE LET i == CHOOSE i \in 1..NatLimbs :
                    a[i] # 0 /\ \A j \in (i + 1)..NatLimbs : a[j] = 0
         IN  (i - 1) * LimbBits + LimbLength(a[i])
BitAt(a, p) ==
    (a[(p - 1) \div LimbBits + 1] \div TwoTo((p - 1) % LimbBits)) % 2

\* The quotient and the remainder of n * Base^k by d, for n < d and a d
\* whose highest limb is MantLimbs and at least Base / 2, by long
\* division: each step brings down a limb 0 and finds the next digit of
\* the quotient, the greatest q with q * d <= cur.  The quotient of the
\* two highest limbs of cur by the highest of d is that digit or up to 2
\* more; p is d times it.
Digit(prev, q, r) ==
    [q |-> Limbed([j \in 1..NatLimbs |-> IF j = 1 THEN q ELSE prev.q[j - 1]]),
     r |-> r]
DivideLess(prev, cur, d, guess, p) ==
    IF ~NatLess(cur, p) THEN Digit(prev, guess, NatSub(cur, p))
    ELSE Digit(prev, guess - 1, NatSub(NatAdd(cur, d), p))
DivideGuess(prev, cur, d, guess, p) ==
    IF ~NatLess(cur, p) THEN Digit(prev, guess, NatSub(cur, p))
    ELSE CHOOSE v \in {DivideLess(prev, cur, d, guess - 1, less) :
                        less \in {NatSub(p, d)}} : TRUE
DivideCur(prev, cur, d, guess) ==
    IF guess = 0 THEN Digit(prev, 0, cur)
    ELSE CHOOSE v \in {DivideGuess(prev, cur, d, guess, p) :
                        p \in {NatTimes(d, guess)}} : TRUE
DivideStep(prev, d) ==
    CHOOSE v \in
        {DivideCur(prev, cur, d,
                   Min(Base - 1,
                       (cur[MantLimbs + 1] * Base + cur[MantLimbs])
                          \div d[MantLimbs])) :
            cur \in {Limbed([j \in 1..NatLimbs |->
                                IF j = 1 THEN 0 ELSE prev.r[j - 1]])}} : TRUE
RECURSIVE Divided(_, _, _)
Divided(n, d, k) ==
    IF k = 0 THEN [q |-> NatZero, r |-> n]
    ELSE CHOOSE v \in {DivideStep(prev, d) :
                        prev \in {Divided(n, d, k - 1)}} : TRUE

\* A double: (-1)^neg * mant * 2^exp with 2^52 <= mant < 2^53, or 0.  The
\* sign of a zero is not kept (no comparison sees it), nor is the range of
\* the exponent.
FloatZero == [neg |-> FALSE, mant |-> NatZero, exp |-> 0]

\* The double nearest to (-1)^neg * a * 2^e, a being followed by further
\* bits that are not all 0 when more holds: ties go to the even
\* significand.  a has s bits more than a significand.
Normal(neg, m, e) ==
    IF m[MantLimbs] >= TwoTo(MantissaBits - (MantLimbs - 1) * LimbBits)
    THEN [neg |-> neg, mant |-> NatShr(m, 1), exp |-> e + 1]
    ELSE [neg |-> neg, mant |-> m, exp |-> e]
Cut(neg, a, e, more, s, kept) ==
    IF /\ BitAt(a, s) = 1
       /\ \/ more
          \/ kept[1] % 2 = 1
          \/ NatShl(NatShr(a, s - 1), s - 1) # a
    THEN Normal(neg, NatAdd(kept, NatOne), e + s)
    ELSE [neg |-> neg, mant |-> kept, exp |-> e + s]
Nearest(neg, a, e, more, s) ==
    IF s <= 0 THEN [neg |-> neg, mant |-> NatShl(a, -s), exp |-> e + s]
    ELSE CHOOSE r \in {Cut(neg, a, e, more, s, kept) :
                        kept \in {NatShr(a, s)}} : TRUE
Rounded(neg, a0, e, more) ==
    IF a0 = NatZero THEN FloatZero
    ELSE CHOOSE r \in {Nearest(neg, a, e, more, s) :
                        a \in {a0}, s \in {NatBits(a0) - MantissaBits}} : TRUE

\* float(k) of an integer k.
FloatOfInt(k) == Rounded(k < 0, NatOf(Abs(k)), 0, FALSE)

\* The exponents of two floats differ by more than this: their sum is the
\* greater of them.
FarApart == NatLimbs * LimbBits - MantissaBits - 1

\* x + y and x - y of two floats.
Aligned(x, y, a, b, e) ==
    IF x.neg = y.neg THEN Rounded(x.neg, NatAdd(a, b), e, FALSE)
    ELSE IF a = b THEN FloatZero
    ELSE IF NatLess(a, b) THEN Rounded(y.neg, NatSub(b, a), e, FALSE)
    ELSE Rounded(x.neg, NatSub(a, b), e, FALSE)
FloatSum(x, y) ==
    IF x.mant = NatZero THEN y
    ELSE IF y.mant = NatZero THEN x
    ELSE IF x.exp - y.exp > FarApart THEN x
    ELSE IF y.exp - x.exp > FarApart THEN y
    ELSE CHOOSE r \in {Aligned(x, y, a, b, Min(x.exp, y.exp)) :
                        a \in {NatShl(x.mant, x.exp - Min(x.exp, y.exp))},
                        b \in {NatShl(y.mant, y.exp - Min(x.exp, y.exp))}} :
            TRUE
FloatAdd(x0, y0) ==
    CHOOSE r \in {FloatSum(x, y) : x \in {x0}, y \in {y0}} : TRUE
FloatNeg(x) == IF x.mant = NatZero THEN x ELSE [x EXCEPT !.neg = ~x.neg]
FloatSub(x, y) == FloatAdd(x, FloatNeg(y))

\* x * y of two floats.
FloatProduct(x, y) ==
    IF x.mant = NatZero \/ y.mant = NatZero THEN FloatZero
    ELSE Rounded(x.neg # y.neg, NatMul(x.mant, y.mant), x.exp + y.exp, FALSE)
FloatMul(x0, y0) ==
    CHOOSE r \in {FloatProduct(x, y) : x \in {x0}, y \in {y0}} : TRUE

\* x / y raises ZeroDivisionError for y = 0.
FloatZeroDivision == [neg |-> FALSE, mant |-> NatZero, exp |-> 1]
FloatRaised(x) == x = FloatZeroDivision

\* x / y of two floats: the quotient of the significands to two bits more
\* than a significand has, and whether the division left a remainder.
\* The divisor is brought to MantLimbs full limbs, the dividend to two
\* bits more than a significand and then MantLimbs limbs up.
FloatQuotient(x, y) ==
    IF y.mant = NatZero THEN FloatZeroDivision
    ELSE IF x.mant = NatZero THEN FloatZero
    ELSE CHOOSE r \in
            {Rounded(x.neg # y.neg, d.q, x.exp - y.exp - (MantissaBits + 2),
                     d.r # NatZero) :
                d \in {Divided(NatShl(x.mant, 2),
                               NatShl(y.mant,
                                      MantLimbs * LimbBits - MantissaBits),
                               MantLimbs)}} : TRUE
FloatDiv(x0, y0) ==
    CHOOSE r \in {FloatQuotient(x, y) : x \in {x0}, y \in {y0}} : TRUE

\* The sign of a float, abs(x), and x < y.
FloatSign(x) == IF x.mant = NatZero THEN 0 ELSE IF x.neg THEN -1 ELSE 1
FloatAbs(x) == [x EXCEPT !.neg = FALSE]
FloatLess(x, y) ==
    IF FloatSign(x) # FloatSign(y) THEN FloatSign(x) < FloatSign(y)
    ELSE IF FloatSign(x) = 0 THEN FALSE
    ELSE LET below == \/ x.exp < y.exp
                      \/ x.exp = y.exp /\ NatLess(x.mant, y.mant)
             above == \/ y.exp < x.exp
                      \/ x.exp = y.exp /\ NatLess(y.mant, x.mant)
         IN  IF x.neg THEN above ELSE below

\* sum() of a list of floats as CPython makes it up to 3.11: from the int
\* 0, one addition after the other.
RECURSIVE NaiveSum(_, _)
NaiveSum(terms, k) ==
    IF k = 0 THEN FloatZero ELSE FloatAdd(NaiveSum(terms, k - 1), terms[k])

\* sum() of a list of floats as CPython makes it from 3.12 on: 0 + the
\* first, then each further x is added to the total f while what the
\* addition loses is gathered in c, which joins the total at the end
\* unless it is 0.
CompensatedStep(s, x) ==
    LET t == FloatAdd(s.f, x) IN
    [f |-> t,
     c |-> FloatAdd(s.c, IF ~FloatLess(FloatAbs(s.f), FloatAbs(x))
                         THEN FloatAdd(FloatSub(s.f, t), x)
                         ELSE FloatAdd(FloatSub(x, t), s.f))]
RECURSIVE CompensatedFrom(_, _)
CompensatedFrom(terms, k) ==
    IF k = 1 THEN [f |-> FloatAdd(FloatZero, terms[1]), c |-> FloatZero]
    ELSE CHOOSE r \in {CompensatedStep(s, terms[k]) :
                        s \in {CompensatedFrom(terms, k - 1)}} : TRUE
CompensatedSum(terms) ==
    IF terms = <<>> THEN FloatZero
    ELSE LET s == CompensatedFrom(terms, Len(terms)) IN
         IF s.c # FloatZero THEN FloatAdd(s.f, s.c) ELSE s.f

\* sum() of a list of floats, by the interpreter that runs the server.
FloatSumOf(terms0) ==
    CHOOSE r \in {IF compensated_sum THEN CompensatedSum(terms)
                  ELSE NaiveSum(terms, Len(terms)) :
                    terms \in {SubSeq(terms0, 1, Len(terms0))}} : TRUE

\* n / d of two integers (true division).
FloatRatio(n, d) == FloatDiv(FloatOfInt(n), FloatOfInt(d))

\* The integers 1, 100 and 50 of lines 1357, 1497, 1501 and 1505, as
\* floats.
Unit == FloatOfInt(1)
Percent == FloatOfInt(100)
FlipWeight == FloatOfInt(50)

\* Lines 1348-1349: x_mean of n prices, and x[i] - x_mean of each.
XMean(n) == FloatRatio(SumOf([i \in 1..n |-> i - 1]), n)
Deviations(n) ==
    CHOOSE dx \in {SubSeq([i \in 1..n |-> FloatSub(FloatOfInt(i - 1), x_mean)],
                          1, n) : x_mean \in {XMean(n)}} : TRUE

\* Lines 1352 and 1353: the numerator and the denominator of the slope of
\* the regression line of the prices over their positions 0..n-1.
NumeratorOf(prices, dx, y_mean) ==
    FloatSumOf([i \in 1..Len(prices) |->
                  FloatMul(dx[i], FloatSub(FloatOfInt(prices[i]), y_mean))])
DenominatorOf(dx) ==
    FloatSumOf([i \in 1..Len(dx) |-> FloatMul(dx[i], dx[i])])
FloatNumerator(prices, y_mean0) ==
    CHOOSE r \in {NumeratorOf(prices, dx, y_mean) :
                    dx \in {Deviations(Len(prices))},
                    y_mean \in {y_mean0}} : TRUE

\* Lines 1355-1357: the trend the two give for an average price.
TrendOf(numerator, denominator, avg_price) ==
    IF denominator # FloatZero
    THEN IF FloatSign(avg_price) > 0
         THEN FloatMul(FloatDiv(FloatDiv(numerator, denominator), avg_price),
                       Percent)
         ELSE FloatZero
    ELSE FloatZero

\* Lines 1346-1359: the slope of the regression line of the prices over
\* their positions 0..n-1, as a percentage of the average price.
TrendPercentage(prices, avg_price) ==
    IF Len(prices) >= 2
    THEN CHOOSE r \in {TrendOf(NumeratorOf(prices, dx, y_mean),
                               DenominatorOf(dx), y_mean) :
                        dx \in {Deviations(Len(prices))},
                        y_mean \in {avg_price}} : TRUE
    ELSE FloatZero

\* Lines 1339-1343: the volatility of prices of this average.
Volatility(avg_price, min_price, max_price) ==
    IF FloatSign(avg_price) > 0
    THEN FloatDiv(FloatOfInt(max_price - min_price), avg_price)
    ELSE FloatZero

\* Lines 1327-1379: the metrics of an item.
MetricsOf(data_points, prices, quantities, avg_price) ==
    [avg_price |-> avg_price,
     min_price |-> MinPrice(data_points),
     max_price |-> MaxPrice(data_points),
     current_price |-> prices[Len(prices)],
     volatility |-> Volatility(avg_price, MinPrice(data_points),
                               MaxPrice(data_points)),
     trend |-> TrendPercentage(prices, avg_price),
     avg_quantity |-> FloatRatio(SumOf(quantities), Len(quantities)),
     total_volume |-> SumOf(quantities),
     data_points |-> Len(prices)]
ItemMetrics(data_points) ==
    CHOOSE r \in {MetricsOf(data_points, prices, quantities,
                            FloatRatio(SumOf(prices), Len(prices))) :
                    prices \in {SubSeq([j \in 1..Len(data_points) |->
                                    data_points[j].price],
                                  1, Len(data_points))},
                    quantities \in {SubSeq([j \in 1..Len(data_points) |->
                                    data_points[j].quantity],
                                  1, Len(data_points))}} : TRUE

\* A position that divides whatever the range is.
PricePosition_Unguarded(metrics) ==
    FloatRatio(metrics.current_price - metrics.min_price,
               metrics.max_price - metrics.min_price)

\* Line 1492: the literal 0.5.
Middle == FloatRatio(1, 2)

\* Line 1492: where the current price lies in the range of the prices.
PricePosition(metrics) ==
    IF metrics.max_price > metrics.min_price
    THEN FloatRatio(metrics.current_price - metrics.min_price,
                    metrics.max_price - metrics.min_price)
    ELSE Middle

\* Lines 1494, 1498 and 1502: the literals 0.3, 0.7 and 0.2, each the
\* double nearest to the fraction.
BuyBelow == FloatRatio(3, 10)
SellAbove == FloatRatio(7, 10)
FlipAbove == FloatRatio(2, 10)

\* Lines 1497, 1501 and 1505: the scores of the three types, multiplied
\* from left to right.
BuyScore(price_position, volatility) ==
    FloatMul(FloatMul(FloatSub(Unit, price_position), volatility), Percent)
SellScore(price_position, volatility) ==
    FloatMul(FloatMul(price_position, volatility), Percent)
FlipScore(volatility) == FloatMul(volatility, FlipWeight)

\* A classification that looks at the volatility first.
Opportunity_FlipFirst(metrics) ==
    CHOOSE o \in
        { IF FloatRaised(price_position)
          THEN [type |-> "ZeroDivisionError", score |-> FloatZero]
          ELSE IF FloatLess(FlipAbove, metrics.volatility)
          THEN [type |-> "FLIP", score |-> FlipScore(metrics.volatility)]
          ELSE IF /\ FloatLess(price_position, BuyBelow)
                  /\ FloatSign(metrics.trend) > 0
          THEN [type |-> "BUY",
                score |-> BuyScore(price_position, metrics.volatility)]
          ELSE IF /\ FloatLess(SellAbove, price_position)
                  /\ FloatSign(metrics.trend) < 0
          THEN [type |-> "SELL",
                score |-> SellScore(price_position, metrics.volatility)]
          ELSE [type |-> "", score |-> FloatZero] :
            price_position \in {PricePosition(metrics)} } : TRUE

\* Lines 1492-1507: the opportunity the metrics of an item show; type ""
\* is none (continue).
Opportunity(metrics) ==
    CHOOSE o \in
        { IF FloatRaised(price_position)
          THEN [type |-> "ZeroDivisionError", score |-> FloatZero]
          ELSE IF /\ FloatLess(price_position, BuyBelow)
                  /\ FloatSign(metrics.trend) > 0
          THEN [type |-> "BUY",
                score |-> BuyScore(price_position, metrics.volatility)]
          ELSE IF /\ FloatLess(SellAbove, price_position)
                  /\ FloatSign(metrics.trend) < 0
          THEN [type |-> "SELL",
                score |-> SellScore(price_position, metrics.volatility)]
          ELSE IF FloatLess(FlipAbove, metrics.volatility)
          THEN [type |-> "FLIP", score |-> FlipScore(metrics.volatility)]
          ELSE [type |-> "", score |-> FloatZero] :
            price_position \in {PricePosition(metrics)} } : TRUE

\* key.startswith(f"{region}_{realm_slug}_"), for the keys of items
\* 0..9 of realms whose names have no "_".
StartsWith(key, r, realm) ==
    \E item_id \in 0..9 : key = Key(r, realm, item_id)

\* Lines 1305-1312: the entries of the store that are analysed: those of
\* the realm with an item id and two points or more.
Analysed(hd, r, realm) ==
    SelectSeq([i \in 1..Len(hd) |-> i],
              LAMBDA i : /\ StartsWith(hd[i].key, r, realm)
                         /\ hd[i].item_id # None
                         /\ Val(hd[i].item_id) # 0
                         /\ Len(hd[i].data_points) > 1)

\* Lines 1488-1514: the opportunities found, in the order of the store.
Appended(item_id, opportunity) ==
    CHOOSE r \in {[item_id |-> item_id, type |-> o.type, score |-> o.score] :
                    o \in {opportunity}} : TRUE
OpportunityOf(item_id, data_points) ==
    CHOOSE r \in {Appended(item_id, Opportunity(metrics)) :
                    metrics \in {ItemMetrics(data_points)}} : TRUE
Found(hd, r, realm) ==
    LET entries == Analysed(hd, r, realm)
        all == SubSeq([k \in 1..Len(entries) |->
                        OpportunityOf(Val(hd[entries[k]].item_id),
                                      hd[entries[k]].data_points)],
                      1, Len(entries))
    IN  SelectSeq(all, LAMBDA o : o.type # "")

\* Line 1517: opportunities.sort(key=score, reverse=True): the place of
\* opportunity k; the sort is stable.
ScorePlace(opps, k) ==
    Cardinality({ j \in 1..Len(opps) :
        \/ FloatLess(opps[k].score, opps[j].score)
        \/ opps[j].score = opps[k].score /\ j < k }) + 1

\* The opportunities in the order of their scores, the highest first.
ByScore(opps0) ==
    CHOOSE r \in {SubSeq([p \in 1..Len(opps) |->
                            opps[CHOOSE k \in 1..Len(opps) :
                                    ScorePlace(opps, k) = p]],
                         1, Len(opps)) :
                  opps \in {opps0}} : TRUE

\* Line 1274: top_n of a call that does not give it.
DefaultTopN == 20

\* No result of analyze_with_details.
NoDetails ==
    [asked |-> FALSE, region |-> "", realm_slug |-> "", error |-> "",
     opportunities |-> <<>>]

\* The result of analyze_with_details("opportunities", realm_slug, region)
\* (lines 1287-1319 and 1486-1521); an exception is caught and returned as
\* an error text (the handler's except clause).
Details(hd, r, realm, top_n) ==
    LET q == [NoDetails EXCEPT !.asked = TRUE, !.region = r,
                               !.realm_slug = realm]
    IN  IF Analysed(hd, r, realm) = <<>>
        THEN [q EXCEPT !.error = "Insufficient historical data"]
        ELSE CHOOSE d \in
                { IF \E k \in 1..Len(opps) :
                        opps[k].type = "ZeroDivisionError"
                  THEN [q EXCEPT !.error = "ZeroDivisionError"]
                  ELSE [q EXCEPT !.opportunities =
                                    FirstN(ByScore(opps), top_n)] :
                    opps \in {Found(hd, r, realm)} } : TRUE

\* analyze_with_details("opportunities", realm_slug, region)
AnalyzeWithDetails ==
    /\ \E r \in StoreRegions, realm \in StoreRealms :
        details' = Details(historical_data, r, realm, DefaultTopN)
    /\ UNCHANGED <<clock, storeVars, cacheVars, updateVars, filed>>
    /\ UNCHANGED <<executorVars, regionVars>>

\* The names callers pass for region and realm: the helpers take them as
\* they come (lines 104-106, 153-155), "_" included.
KeyRegions == {"us", "us_a"}
KeyRealms == {"b", "a_b"}

\* The (region, realm, item id) tuples of these names.
KeyTuples == KeyRegions \X KeyRealms \X {1}

\* Nothing recorded yet.
NoneFiled == [a \in KeyTuples |-> <<>>]

\* The total number of points in filed.
FiledPoints ==
    LET Sum[S \in SUBSET KeyTuples] ==
            IF S = {} THEN 0
            ELSE LET a == CHOOSE x \in S : TRUE
                 IN  Len(filed[a]) + Sum[S \ {a}]
    IN  Sum[KeyTuples]

\* store_historical_data(region, realm, item_id, price, quantity) with
\* these names.
StoreSeries ==
    /\ FiledPoints < MaxRecords
    /\ \E a \in KeyTuples, price \in Prices, quantity \in Quantities :
        /\ historical_data' = Stored(historical_data, a[1], a[2], a[3],
                                     price, quantity, clock)
        /\ filed' = [filed EXCEPT ![a] =
                        Append(@, DataPoint(price, quantity, clock))]
    /\ trends' = NoTrends
    /\ cached' = NoCached
    /\ UNCHANGED <<clock, recorded, cleanups, cacheVars, updateVars, details>>
    /\ UNCHANGED <<executorVars, regionVars>>

\* get_historical_trends(region, realm, item_id, hours) with these names.
QuerySeries ==
    /\ \E a \in KeyTuples, hours \in 1..MaxHours :
        LET key == Key(a[1], a[2], a[3]) IN
        /\ historical_data' = Probe(historical_data, key)
        /\ trends' = Trends(historical_data', key, hours, clock)
    /\ cached' = NoCached
    /\ UNCHANGED <<clock, recorded, cleanups, analysis_cache,
                   analysis_cache_ttl, puts>>
    /\ UNCHANGED <<executorVars, regionVars, updateVars, analysisVars>>

\* The keys the store is called with.
StoreKeys ==
    { Key(r, realm, item_id) :
        r \in StoreRegions, realm \in StoreRealms, item_id \in ItemIds }

(***************************************************************************)
(* analysis_mcp_server: the analysis cache                                 *)
(***************************************************************************)

\* The keys and values of the cache.
CacheKeys == {"market_us_stormrage", "last_historical_update"}
CacheValues == {1, 2}

\* An expiry test that still serves the entry at its expiry time.
Fresh_Inclusive(time, ttl) == time <= ttl

\* Line 100: datetime.now() < analysis_cache_ttl[key]
Fresh(time, ttl) == time < ttl

\* cache_analysis(key, data, ttl_hours)
CacheAnalysis ==
    /\ \E key \in CacheKeys, data \in CacheValues, ttl_hours \in 0..MaxHours :
        /\ analysis_cache' = [analysis_cache EXCEPT ![key] = Some(data)]
        /\ analysis_cache_ttl' = [analysis_cache_ttl EXCEPT
                                     ![key] = Some(clock + Hours(ttl_hours))]
        /\ puts' = [puts EXCEPT ![key] =
                        Some([value |-> data, at |-> clock,
                              ttl_hours |-> ttl_hours])]
    /\ trends' = NoTrends
    /\ cached' = NoCached
    /\ UNCHANGED <<clock, historical_data, recorded, cleanups>>
    /\ UNCHANGED <<executorVars, regionVars, updateVars, analysisVars>>

\* get_cached_analysis(key)
GetCachedAnalysis ==
    /\ \E key \in CacheKeys :
        cached' = [asked |-> TRUE, key |-> key,
                   value |->
                       IF /\ analysis_cache[key] # None
                          /\ analysis_cache_ttl[key] # None
                          /\ Fresh(clock, Val(analysis_cache_ttl[key]))
                       THEN analysis_cache[key]
                       ELSE None]
    /\ trends' = NoTrends
    /\ UNCHANGED <<clock, historical_data, recorded, cleanups,
                   analysis_cache, analysis_cache_ttl, puts>>
    /\ UNCHANGED <<executorVars, regionVars, updateVars, analysisVars>>

(***************************************************************************)
(* analysis_mcp_server: update_historical_database                         *)
(*                                                                         *)
(* A text is a sequence of pieces (a name, ",", ":", " "), so that split() *)
(* and strip() have something to work on.  The handler runs without        *)
(* suspension up to its first request; it is suspended while the realm     *)
(* request and the auctions request of a realm are in flight, and, where   *)
(* the database services (app.services) are imported and a database is     *)
(* configured, while store_market_snapshot and record_snapshot are.        *)
(***************************************************************************)

\* str.lower() of a piece.
LowerPiece(c) ==
    IF c = "ALL-US" THEN "all-us"
    ELSE IF c = "Popular" THEN "popular"
    ELSE c

\* str.lower()
Lower(str) == [i \in 1..Len(str) |-> LowerPiece(str[i])]

\* str.split(sep)
RECURSIVE Split(_, _)
Split(str, sep) ==
    IF \A i \in 1..Len(str) : str[i] # sep THEN <<str>>
    ELSE LET i == CHOOSE k \in 1..Len(str) :
                      /\ str[k] = sep
                      /\ \A j \in 1..(k - 1) : str[j] # sep
         IN  <<SubSeq(str, 1, i - 1)>> \o Split(SubSeq(str, i + 1, Len(str)), sep)

\* str.strip()
RECURSIVE Strip(_)
Strip(str) ==
    IF str = <<>> THEN str
    ELSE IF str[1] = " " THEN Strip(Tail(str))
    ELSE IF str[Len(str)] = " " THEN Strip(SubSeq(str, 1, Len(str) - 1))
    ELSE str

\* The pieces of a text joined into one string.
RECURSIVE Concat(_)
Concat(str) == IF str = <<>> THEN "" ELSE str[1] \o Concat(Tail(str))

\* Lines 966-971 and 995-1001: the realms of "all-us" and the default
\* realms, as (region, realm) pairs.
DefaultRealmList ==
    << <<"us", "stormrage">>, <<"us", "area-52">>, <<"us", "tichondrius">>,
       <<"us", "mal-ganis">>, <<"us", "kiljaeden">> >>

\* Lines 974-979: the realms of "popular".
PopularRealmList ==
    << <<"us", "stormrage">>, <<"us", "area-52">>, <<"us", "tichondrius">>,
       <<"us", "mal-ganis">>, <<"us", "kiljaeden">>, <<"us", "illidan">>,
       <<"us", "thrall">>, <<"us", "moon-guard">>,
       <<"us", "wyrmrest-accord">>, <<"us", "bleeding-hollow">> >>

\* Lines 988-993: a realm spec "realm:region" or "realm" as a
\* (region, realm) pair.
RealmPair(realm_spec) ==
    LET parts == Split(Strip(realm_spec), ":") IN
    IF Len(parts) = 2 THEN <<Concat(parts[2]), Concat(parts[1])>>
    ELSE <<"us", Concat(parts[1])>>

\* realms.split(","), line 982.
ParsedRealms(realms) == Split(realms, ",")

\* Line 985: len(parsed_realms) > RESOURCE_LIMITS["MAX_REALMS_PER_REQUEST"]
TooManyRealms(n) == n > MAX_REALMS_PER_REQUEST

\* "if realms:" is false (line 964): no text, or an empty one.
NoRealms(realms) == realms = None \/ Val(realms) = <<>>

\* Lines 984-986: the argument realms (None, or Some text) is a list that
\* is refused for its length.
RealmsRefused(realms) ==
    /\ ~NoRealms(realms)
    /\ Lower(Val(realms)) \notin {<<"all-us">>, <<"popular">>}
    /\ TooManyRealms(Len(ParsedRealms(Val(realms))))

\* Lines 963-1002: the realm list of an argument that is not refused.
RealmList(realms) ==
    IF NoRealms(realms) THEN DefaultRealmList
    ELSE IF Lower(Val(realms)) = <<"all-us">> THEN DefaultRealmList
    ELSE IF Lower(Val(realms)) = <<"popular">> THEN PopularRealmList
    ELSE LET parsed_realms == ParsedRealms(Val(realms)) IN
         [i \in 1..Len(parsed_realms) |-> RealmPair(parsed_realms[i])]

\* The number of realms the argument realms names.
ResolvedRealms(realms) ==
    IF NoRealms(realms) THEN Len(DefaultRealmList)
    ELSE IF Lower(Val(realms)) = <<"all-us">> THEN Len(DefaultRealmList)
    ELSE IF Lower(Val(realms)) = <<"popular">> THEN Len(PopularRealmList)
    ELSE Len(ParsedRealms(Val(realms)))

\* The realm names of the comma lists the handler is called with.
ListRealms ==
    <<"stormrage", "area-52", "tichondrius", "mal-ganis", "kiljaeden",
      "illidan">>

\* The text "stormrage:us, area-52,tichondrius:us, ..." of n realms.
RECURSIVE CommaList(_)
CommaList(n) ==
    LET spec == IF n % 2 = 1 THEN <<ListRealms[n], ":", "us">>
                ELSE <<" ", ListRealms[n]>>
    IN  IF n = 1 THEN spec ELSE CommaList(n - 1) \o <<",">> \o spec

\* The values of the argument realms.
RealmsArgs ==
    { None, Some(<<>>), Some(<<"all-us">>), Some(<<"ALL-US">>),
      Some(<<"popular">>), Some(CommaList(2)),
      Some(CommaList(MAX_REALMS_PER_REQUEST + 1)) }

\* The values of the argument top_items: under the least and over the
\* most the handler allows.
TopItemsArgs == {0, MAX_ITEMS_PER_REALM + 1}

\* The length of a clock tick in seconds.
SecondsPerTick == SecondsPerHour \div TicksPerHour

\* The key of the time of the last update in analysis_cache.
last_update_key == "last_historical_update"

\* Lines 940-946: an update ran less than MIN_SECONDS_BETWEEN_UPDATES ago.
RateLimited(cache, time) ==
    /\ cache[last_update_key] # None
    /\ (time - Val(cache[last_update_key])) * SecondsPerTick
            < MIN_SECONDS_BETWEEN_UPDATES

\* A validation that lets every scope pass.
ConflictingScope_Never(realms, include_all_items) == FALSE

\* Lines 949-950
ConflictingScope(realms, include_all_items) ==
    /\ include_all_items
    /\ realms # None
    /\ Val(realms) # <<>>
    /\ Lower(Val(realms)) = <<"all-us">>

\* Line 953: min(max(top_items, 10), MAX_ITEMS_PER_REALM)
ClampTopItems(top_items) ==
    LET least == IF top_items > MinTopItems THEN top_items ELSE MinTopItems
    IN  IF least < MAX_ITEMS_PER_REALM THEN least ELSE MAX_ITEMS_PER_REALM

\* Lines 214-220 and 956-957: the store is estimated to take more memory
\* than MAX_HISTORICAL_DATA_MB.
RECURSIVE TotalPoints(_)
TotalPoints(hd) ==
    IF hd = <<>> THEN 0
    ELSE Len(hd[1].data_points) + TotalPoints(Tail(hd))
OverMemory(hd) == TotalPoints(hd) > MaxStoredPoints

\* The number of distinct items on sale in a realm: one in the first of
\* the well-known realms, AuctionItemCount in every other.
AuctionSize(realm) == IF realm = "stormrage" THEN 1 ELSE AuctionItemCount

\* The auctions of a realm: item i on sale in AuctionItemCount - i + 1
\* units, at i a unit.  items_by_volume (lines 1056-1060 and 1109) lists
\* the items by quantity, largest first.
ItemsByVolume(realm) ==
    [i \in 1..AuctionSize(realm) |->
        [item_id |-> i, price |-> i, quantity |-> AuctionItemCount - i + 1]]

\* A selection that looks at top_items only.
ItemsToTrack_TopOnly(db, include_all_items, top_items, total, realm) ==
    FirstN(ItemsByVolume(realm), top_items)

\* The items tracked for a realm: lines 1063-1075 with the database
\* services (db), lines 1112-1130 without.
ItemsToTrack(db, include_all_items, top_items, total, realm) ==
    LET remaining_capacity == MAX_TOTAL_ITEMS - total
        safe_limit == Min(top_items, remaining_capacity)
    IN  IF db
        THEN IF include_all_items
             THEN FirstN(ItemsByVolume(realm), remaining_capacity)
             ELSE FirstN(ItemsByVolume(realm), safe_limit)
        ELSE IF total >= MAX_TOTAL_ITEMS THEN <<>>
             ELSE FirstN(ItemsByVolume(realm), safe_limit)

\* Lines 1084-1090 and 1117-1130: the store after store_historical_data of
\* each item of items, in order.
RECURSIVE StoredAll(_, _, _, _, _)
StoredAll(hd, r, realm, items, time) ==
    IF items = <<>> THEN hd
    ELSE StoredAll(Stored(hd, r, realm, items[1].item_id, items[1].price,
                          items[1].quantity, time),
                   r, realm, Tail(items), time)

\* The history of recorded points after the same calls.
RECURSIVE RecordedAll(_, _, _, _, _)
RecordedAll(rec, r, realm, items, time) ==
    IF items = <<>> THEN rec
    ELSE RecordedAll(
            [rec EXCEPT ![Key(r, realm, items[1].item_id)] =
                Append(@, DataPoint(items[1].price, items[1].quantity, time))],
            r, realm, Tail(items), time)

\* A task's call of update_historical_database.  pc: idle, realm (the realm
\* request of realm_list[idx] is in flight), auctions (its auctions request
\* is), snapshot (store_market_snapshot of the realm is), close
\* (session.close() is awaited, after the loop), record (record_snapshot
\* is, after the save), done; left is the loop just left, within a step;
\* stopped is the end of the process.  The fields from calls on are
\* history: the requests made, the realms a request was made for, the
\* requests that failed, the number of realms the argument named, and the
\* outcome of each realm gone through (the number of items tracked for it,
\* or -1 for an error).
InitUpd ==
    [pc |-> "idle", realms |-> None, top_items |-> 0,
     include_all_items |-> FALSE, realm_list |-> <<>>, idx |-> 0,
     start_time |-> 0, success_count |-> 0, total_items_tracked |-> 0,
     errors |-> <<>>, result |-> "", stopped |-> "",
     calls |-> 0, fetched |-> 0, failures |-> 0, resolved |-> 0,
     outcomes |-> <<>>]

\* A time check that never stops the loop.
TimedOut_Never(u, time) == FALSE

\* Lines 1016-1017: elapsed_time > RESOURCE_LIMITS["MAX_EXECUTION_TIME"]
TimedOut(u, time) ==
    (time - u.start_time) * SecondsPerTick > MAX_EXECUTION_TIME

\* Line 1025: total_items_tracked >= RESOURCE_LIMITS["MAX_TOTAL_ITEMS"]
ItemLimitReached(u) == u.total_items_tracked >= MAX_TOTAL_ITEMS

\* Lines 1014-1036: the head of the realm loop, after idx - 1 realms: the
\* loop is left (at its end, or on the time or the item limit), or the
\* realm request of the next realm is made.
LoopHead(u, time) ==
    IF u.idx > Len(u.realm_list)
    THEN [u EXCEPT !.pc = "left"]
    ELSE IF TimedOut(u, time)
    THEN [u EXCEPT !.pc = "left", !.stopped = "timeout"]
    ELSE IF ItemLimitReached(u)
    THEN [u EXCEPT !.pc = "left", !.stopped = "item limit"]
    ELSE [u EXCEPT !.pc = "realm", !.calls = @ + 1, !.fetched = @ + 1]

\* The file after a json.dump that failed on its way (line 209): a text
\* cut short, which is no store.
TornFile == <<"cut", "short">>

\* Lines 203-212: save_historical_data() writes the store hd over the history
\* file; a failure of open() leaves the file as it was, one of json.dump
\* leaves it torn, and either is logged only.
SavedFiles(file, hd) == {Some(hd), file, TornFile}

\* Lines 1146-1162: the store is saved; with the database services and a
\* session maker record_snapshot is awaited next, without them the time
\* of the update is written and the summary returned.
Saved(t, u) ==
    /\ history_file' \in SavedFiles(history_file, historical_data')
    /\ IF DB_AVAILABLE /\ AsyncSessionLocal
       THEN /\ upd' = [upd EXCEPT ![t] = [u EXCEPT !.pc = "record"]]
            /\ UNCHANGED analysis_cache
       ELSE /\ upd' = [upd EXCEPT ![t] =
                   [u EXCEPT !.pc = "done", !.result = "summary"]]
            /\ analysis_cache' = [analysis_cache EXCEPT
                                    ![last_update_key] = Some(clock)]

\* An update that writes its time after every realm.
GoOn_Stamping(t, u) ==
    IF u.pc # "left"
    THEN /\ upd' = [upd EXCEPT ![t] = u]
         /\ UNCHANGED history_file
         /\ analysis_cache' = [analysis_cache EXCEPT
                                 ![last_update_key] = Some(clock)]
    ELSE \/ Saved(t, u)
         \/ /\ upd' = [upd EXCEPT ![t] = [u EXCEPT !.pc = "close"]]
            /\ UNCHANGED <<history_file, analysis_cache>>

\* Lines 1014 and 1145: task t goes on as u.  If u has left its loop it
\* leaves `async with BlizzardAPIClient()`, which awaits session.close()
\* (blizzard_client.py 90-92): with the aiohttp installed that await
\* suspends the task or does not, and the save follows it.
GoOn(t, u) ==
    IF u.pc # "left"
    THEN /\ upd' = [upd EXCEPT ![t] = u]
         /\ UNCHANGED <<history_file, analysis_cache>>
    ELSE \/ Saved(t, u)
         \/ /\ upd' = [upd EXCEPT ![t] = [u EXCEPT !.pc = "close"]]
            /\ UNCHANGED <<history_file, analysis_cache>>

\* update_historical_database(realms, top_items, include_all_items) is
\* called, with arguments from the given sets, and runs up to its first
\* request or to its return; at most limit calls are followed into their
\* realm loop.  Without the API client the call returns at line 938;
\* without the credentials BlizzardAPIClient() raises at line 1014, after
\* the checks, and the handler returns the error (line 1216).
CallUpdateWith(t, realmsArgs, topItemsArgs, includeAllArgs, limit) ==
    /\ upd[t].pc = "idle"
    /\ \E realms \in realmsArgs, top_items \in topItemsArgs,
          include_all_items \in includeAllArgs :
        LET u == [InitUpd EXCEPT !.realms = realms,
                                 !.include_all_items = include_all_items,
                                 !.resolved = ResolvedRealms(realms)]
        IN
        IF ~API_AVAILABLE
        THEN /\ upd' = [upd EXCEPT ![t] =
                    [u EXCEPT !.pc = "done", !.result = "api not available"]]
             /\ UNCHANGED <<historical_data, cleanups, started, began,
                            history_file, analysis_cache>>
        ELSE IF RateLimited(analysis_cache, clock)
        THEN /\ upd' = [upd EXCEPT ![t] =
                    [u EXCEPT !.pc = "done", !.result = "rate limit"]]
             /\ UNCHANGED <<historical_data, cleanups, started, began,
                            history_file, analysis_cache>>
        ELSE IF ConflictingScope(realms, include_all_items)
        THEN /\ upd' = [upd EXCEPT ![t] =
                    [u EXCEPT !.pc = "done", !.result = "security error"]]
             /\ UNCHANGED <<historical_data, cleanups, started, began,
                            history_file, analysis_cache>>
        ELSE /\ IF OverMemory(historical_data)
                THEN /\ historical_data' = Cleaned(historical_data)
                     /\ cleanups' = IF cleanups < MaxCleanups
                                    THEN cleanups + 1 ELSE cleanups
                ELSE UNCHANGED <<historical_data, cleanups>>
             /\ IF RealmsRefused(realms)
                THEN /\ upd' = [upd EXCEPT ![t] =
                            [u EXCEPT !.pc = "done",
                                      !.top_items = ClampTopItems(top_items),
                                      !.result = "too many realms"]]
                     /\ UNCHANGED <<started, began, history_file,
                                    analysis_cache>>
                ELSE IF ~credentials
                THEN /\ upd' = [upd EXCEPT ![t] =
                            [u EXCEPT !.pc = "done",
                                      !.top_items = ClampTopItems(top_items),
                                      !.result = "error"]]
                     /\ UNCHANGED <<started, began, history_file,
                                    analysis_cache>>
                ELSE /\ started < limit
                     /\ started' = started + 1
                     /\ began' = Some(clock)
                     /\ GoOn(t, LoopHead([u EXCEPT
                                        !.top_items = ClampTopItems(top_items),
                                        !.start_time = clock,
                                        !.realm_list = RealmList(realms),
                                        !.idx = 1],
                                     clock))
    /\ trends' = NoTrends
    /\ cached' = NoCached
    /\ UNCHANGED <<clock, recorded, analysis_cache_ttl, puts, deployVars>>
    /\ UNCHANGED <<executorVars, regionVars, analysisVars>>

\* update_historical_database is called with any of its arguments.
CallUpdate(t) ==
    CallUpdateWith(t, RealmsArgs, TopItemsArgs, BOOLEAN, MaxUpdates)

\* A failure that ends the loop.
RealmFailed_Abort(u, time) ==
    [u EXCEPT !.errors = Append(@, u.realm_list[u.idx][2]),
              !.failures = @ + 1,
              !.outcomes = Append(@, -1),
              !.idx = @ + 1,
              !.pc = "left"]

\* Lines 1140-1143: the realm of the iteration failed: it is listed in
\* errors and the loop goes on with the next realm.
RealmFailed(u, time) ==
    LoopHead([u EXCEPT !.errors = Append(@, u.realm_list[u.idx][2]),
                       !.failures = @ + 1,
                       !.outcomes = Append(@, -1),
                       !.idx = @ + 1],
             time)

\* Lines 1084-1090, 1117-1138: the items of the realm are stored and
\* counted, and the loop goes on.
StoreRealm(t) ==
    LET u == upd[t]
        r == u.realm_list[u.idx][1]
        realm == u.realm_list[u.idx][2]
        items == ItemsToTrack(DB_AVAILABLE, u.include_all_items, u.top_items,
                              u.total_items_tracked, realm)
    IN  /\ historical_data' =
                StoredAll(historical_data, r, realm, items, clock)
        /\ recorded' = RecordedAll(recorded, r, realm, items, clock)
        /\ GoOn(t, LoopHead([u EXCEPT
                                !.success_count = @ + 1,
                                !.total_items_tracked = @ + Len(items),
                                !.outcomes = Append(@, Len(items)),
                                !.idx = @ + 1],
                            clock))

\* The realm request returns (line 1033): the auctions request is made.
RealmReply(t) ==
    /\ upd[t].pc = "realm"
    /\ upd' = [upd EXCEPT ![t].pc = "auctions", ![t].calls = @ + 1]
    /\ UNCHANGED <<clock, storeVars, cacheVars, history_file, started, began,
                   deployVars>>
    /\ UNCHANGED <<executorVars, regionVars, analysisVars>>

\* The realm request, the auctions request or store_market_snapshot
\* raises.
RequestRaises(t) ==
    /\ upd[t].pc \in {"realm", "auctions", "snapshot"}
    /\ upd[t].failures < MaxFailures
    /\ historical_data' = historical_data
    /\ GoOn(t, RealmFailed(upd[t], clock))
    /\ UNCHANGED <<clock, recorded, trends, cleanups, analysis_cache_ttl,
                   puts, cached, started, began, deployVars>>
    /\ UNCHANGED <<executorVars, regionVars, analysisVars>>

\* The auctions request returns (line 1043).  With the database services
\* and items to track, store_market_snapshot is awaited (lines 1078-1082);
\* otherwise the items are stored at once.
AuctionsReply(t) ==
    /\ upd[t].pc = "auctions"
    /\ LET u == upd[t]
           items == ItemsToTrack(DB_AVAILABLE, u.include_all_items,
                                 u.top_items, u.total_items_tracked,
                                 u.realm_list[u.idx][2])
       IN  IF DB_AVAILABLE /\ AsyncSessionLocal /\ items # <<>>
           THEN /\ upd' = [upd EXCEPT ![t].pc = "snapshot"]
                /\ UNCHANGED <<historical_data, recorded, history_file,
                               analysis_cache>>
           ELSE StoreRealm(t)
    /\ trends' = NoTrends
    /\ cached' = NoCached
    /\ UNCHANGED <<clock, cleanups, analysis_cache_ttl, puts, started, began,
                   deployVars>>
    /\ UNCHANGED <<executorVars, regionVars, analysisVars>>

\* store_market_snapshot returns (line 1080).
SnapshotStored(t) ==
    /\ upd[t].pc = "snapshot"
    /\ StoreRealm(t)
    /\ trends' = NoTrends
    /\ cached' = NoCached
    /\ UNCHANGED <<clock, cleanups, analysis_cache_ttl, puts, started, began,
                   deployVars>>
    /\ UNCHANGED <<executorVars, regionVars, analysisVars>>

\* record_snapshot returns or raises (lines 1150-1159; its failure is
\* logged only): the time of the update is written and the summary
\* returned.
SnapshotRecorded(t) ==
    /\ upd[t].pc = "record"
    /\ upd' = [upd EXCEPT ![t].pc = "done", ![t].result = "summary"]
    /\ analysis_cache' = [analysis_cache EXCEPT
                            ![last_update_key] = Some(clock)]
    /\ UNCHANGED <<clock, storeVars, analysis_cache_ttl, puts, cached,
                   history_file, started, began, deployVars>>
    /\ UNCHANGED <<executorVars, regionVars, analysisVars>>

\* session.close() returns (blizzard_client.py 92): the store, as it is
\* now, is saved (line 1146).
SessionClosed(t) ==
    /\ upd[t].pc = "close"
    /\ historical_data' = historical_data
    /\ Saved(t, upd[t])
    /\ UNCHANGED <<clock, recorded, trends, cleanups, analysis_cache_ttl,
                   puts, cached, started, began, deployVars>>
    /\ UNCHANGED <<executorVars, regionVars, analysisVars>>

\* predict_market_trends (lines 678-839) returns its text: its two
\* requests were answered, it has read the store, and it saves it (line
\* 833).  Without the API client, without the credentials or when a
\* request fails the handler returns an error and saves nothing.
PredictMarketTrends ==
    /\ API_AVAILABLE
    /\ credentials
    /\ \A t \in Tasks : upd[t].pc # "stopped"
    /\ history_file' \in SavedFiles(history_file, historical_data)
    /\ UNCHANGED <<clock, storeVars, cacheVars, upd, started, began,
                   deployVars>>
    /\ UNCHANGED <<executorVars, regionVars, analysisVars>>

\* main() (lines 2293-2300): the server is interrupted, or fails; the
\* store is saved and the process ends, and the calls in progress with
\* it.
Shutdown ==
    /\ \A t \in Tasks : upd[t].pc # "stopped"
    /\ history_file' \in SavedFiles(history_file, historical_data)
    /\ upd' = [t \in Tasks |-> [InitUpd EXCEPT !.pc = "stopped"]]
    /\ UNCHANGED <<clock, storeVars, cacheVars, started, began, deployVars>>
    /\ UNCHANGED <<executorVars, regionVars, analysisVars>>

\* The caller takes the result of the update.
UpdateDone(t) ==
    /\ upd[t].pc = "done"
    /\ upd' = [upd EXCEPT ![t] = InitUpd]
    /\ UNCHANGED <<clock, storeVars, cacheVars, history_file, started, began,
                   deployVars>>
    /\ UNCHANGED <<executorVars, regionVars, analysisVars>>

\* The keys the updates store under.
UpdateKeys ==
    { Key(PopularRealmList[i][1], PopularRealmList[i][2], item_id) :
        i \in 1..Len(PopularRealmList), item_id \in 1..AuctionItemCount }

\* The server after import with no history file on disk: the store and
\* the cache are empty.
InitState ==
    /\ clock = 0
    /\ historical_data = <<>>
    /\ recorded = [k \in StoreKeys \cup UpdateKeys |-> <<>>]
    /\ trends = NoTrends
    /\ cleanups = 0
    /\ analysis_cache = [k \in CacheKeys |-> None]
    /\ analysis_cache_ttl = [k \in CacheKeys |-> None]
    /\ puts = [k \in CacheKeys |-> None]
    /\ cached = NoCached
    /\ upd = [t \in Tasks |-> InitUpd]
    /\ history_file = None
    /\ started = 0
    /\ began = None
    /\ filed = NoneFiled
    /\ details = NoDetails

\* The same, in a deployment with the API client and its credentials,
\* without the database services (lines 44-53) and without a database
\* (lines 56-70).
InitServer ==
    /\ InitState
    /\ API_AVAILABLE = TRUE
    /\ credentials = TRUE
    /\ DB_AVAILABLE = FALSE
    /\ AsyncSessionLocal = FALSE
    /\ compensated_sum = FALSE

(***************************************************************************)
(* The clock                                                               *)
(***************************************************************************)

Sleeping == {"acq_sleep", "req_sleep429", "req_backoff"}

\* One day in ticks: timedelta keeps the whole days of a difference apart
\* from its .seconds.
DayTicks == 86400 * TicksPerSecond

\* The age of a timestamp of the limiter, in ticks.
Age(r) == now - r

\* The ages of the limiter's timestamps.
Ages(reqs) == {Age(reqs[i]) : i \in DOMAIN reqs}

\* The timestamps are all more than a window old and short of a whole day:
\* the next acquire() prunes every one of them, whenever it comes.
Stale(reqs) ==
    /\ reqs # <<>>
    /\ \A a \in Ages(reqs) : a >= WindowTicks /\ a < DayTicks - Horizon

\* The age of the oldest and of the youngest of the timestamps.
Oldest(reqs) == CHOOSE a \in Ages(reqs) : \A e \in Ages(reqs) : a >= e
Youngest(reqs) == CHOOSE a \in Ages(reqs) : \A e \in Ages(reqs) : a <= e

\* The instant x, d ticks later; it is aged no further than floor.
Elapse(x, d, floor) == IF x - d < floor THEN Min(x, floor) ELSE x - d

\* A timestamp of the limiter, d ticks later.  (now - req_time).seconds
\* leaves out the whole days of the age, so a timestamp a day and a window
\* old is kept as one a window old: acquire() treats the two alike from
\* then on.
Older(r, d) ==
    IF Age(r) + d >= DayTicks + WindowTicks THEN r - d + DayTicks ELSE r - d

\* The timestamps, with the youngest of them `age` ticks old.
Shifted(reqs, age) ==
    [i \in DOMAIN reqs |-> reqs[i] + (Youngest(reqs) - age)]

\* The timestamps of the limiter, d ticks later.  Stale timestamps are kept
\* at their distances from each other with the youngest one window old,
\* however long they have been stale: whatever a task waits for (a reply,
\* a sleep, the lock) can outlast the day.  So the tick that finds them
\* stale either leaves them so, or is the one that brings the oldest to
\* the horizon before a whole day, from where every tick counts again.
Aged(reqs, d) ==
    LET moved == [i \in DOMAIN reqs |-> Older(reqs[i], d)] IN
    IF Stale(moved)
    THEN { Shifted(moved, WindowTicks),
           Shifted(moved, DayTicks - Horizon - (Oldest(moved) - Youngest(moved))) }
    ELSE {moved}

\* Time passes, one tick: every stored instant moves into the past.  An
\* expiry that is reached stays reached, and the history keeps the
\* admissions of the last WindowTicks ticks: a window [s, s + T) is whole
\* in it at the moment of its last admission.
Tick ==
    /\ requests' \in Aged(requests, 1)
    /\ token_expires_at' =
            IF token_expires_at = None THEN None
            ELSE Some(Elapse(Val(token_expires_at), 1, now))
    /\ task' = [t \in Tasks |->
            IF task[t].pc \in Sleeping
            THEN [task[t] EXCEPT !.wake = Elapse(@, 1, now)]
            ELSE task[t]]
    /\ admitted' = SelectSeq([i \in DOMAIN admitted |-> admitted[i] - 1],
                             LAMBDA x : x >= -WindowTicks)
    /\ granted' =
            IF granted = None THEN None
            ELSE Some([Val(granted) EXCEPT
                        !.t0 = Elapse(@, 1, -LifetimeTicks)])
    /\ UNCHANGED <<lock, access_token>>
    /\ UNCHANGED outerVars

Init ==
    /\ requests = <<>>
    /\ lock = 0
    /\ access_token = None
    /\ token_expires_at = None
    /\ task = [t \in Tasks |-> InitTask]
    /\ admitted = <<>>
    /\ granted = None
    /\ region = DefaultRegion
    /\ base_url = BaseUrl(region)
    /\ reg = [t \in Tasks |-> InitReg]
    /\ InitServer

LimiterStep(t) ==
    \/ CallAcquire(t)
    \/ AcquireAdmit(t)
    \/ AcquireFull(t)
    \/ AcquireRetry(t)

NextLimiter == Tick \/ \E t \in Tasks : LimiterStep(t)

\* Tasks that call RateLimiter.acquire() over and over while time passes.
SpecLimiter == Init /\ [][NextLimiter]_vars

\* The event loop runs every task that is ready, and the clock advances.
FairSpecLimiter ==
    /\ SpecLimiter
    /\ WF_vars(Tick)
    /\ \A t \in Tasks : WF_vars(LimiterStep(t))

TokenStep(t) ==
    \/ CallToken(t)
    \/ TokenReply(t)
    \/ TokenNetworkError(t)
    \/ Return(t)

NextToken == Tick \/ \E t \in Tasks : TokenStep(t)

\* Tasks that call get_access_token() concurrently while time passes.
SpecToken == Init /\ [][NextToken]_vars

(***************************************************************************)
(* RateLimiter: properties                                                 *)
(***************************************************************************)

\* The admitted timestamps that lie in the window [s, s + T).
InWindow(s) ==
    {i \in DOMAIN admitted : s <= admitted[i] /\ admitted[i] < s + WindowTicks}

\* C1: whatever the sequence and interleaving of acquire() calls, no window
\* [s, s + T) of length T (one second) holds more than N = max_requests of
\* the timestamps acquire() admitted.
C1_SlidingWindowBound ==
    \A s \in -WindowTicks..now : Cardinality(InWindow(s)) <= MaxRequests

\* C1 witness: more than N timestamps were admitted over time (pruning made
\* room again), the current window holds exactly N, and an acquirer that
\* found it full has been made to wait.
C1_Witness ==
    /\ Len(admitted) > MaxRequests
    /\ \E s \in -WindowTicks..now : Cardinality(InWindow(s)) = MaxRequests
    /\ \E t \in Tasks : task[t].pc = "acq_sleep"

\* C2: every call of acquire() eventually returns with its timestamp
\* recorded, also a call that found the window full: a task waiting in
\* acquire() (for the lock, or again after its sleep) gets back to its caller.
C2_AcquireEventuallyReturns ==
    \A t \in Tasks : (task[t].pc = "acq_lock") ~> (task[t].pc = "idle")

\* C3: a task suspended in the enforced wait of acquire() does not hold the
\* limiter's lock, so the lock is free for the other tasks meanwhile.
C3_LockFreeWhileSleeping ==
    \A t \in Tasks : task[t].pc = "acq_sleep" => lock # t

RequestStep(t) ==
    \/ StartRequest(t)
    \/ AcquireAdmit(t)
    \/ AcquireFull(t)
    \/ AcquireRetry(t)
    \/ TokenReply(t)
    \/ TokenNetworkError(t)
    \/ GetReply(t)
    \/ GetNetworkError(t)
    \/ RetryReply(t)
    \/ RetryNetworkError(t)
    \/ RequestWake(t)
    \/ Return(t)

\* The task that calls make_request(), and the task that meanwhile calls
\* get_access_token() on the same client.
Requesters == {1}
TokenCallers == {2}

NextRequest ==
    \/ Tick
    \/ \E t \in Requesters : RequestStep(t)
    \/ \E t \in TokenCallers : TokenStep(t)

\* A task that calls make_request() over and over, while another task
\* uses the credential cache of the same client and time passes.
SpecRequest == Init /\ [][NextRequest]_vars

\* The event loop runs the requesting task whenever it is ready, every
\* GET and POST in flight is answered or fails (the session's default
\* timeout ends a request that gets no answer), and the clock advances.
FairSpecRequest ==
    /\ SpecRequest
    /\ WF_vars(Tick)
    /\ \A t \in Requesters : WF_vars(RequestStep(t))
    /\ \A t \in TokenCallers : WF_vars(TokenStep(t))

(***************************************************************************)
(* get_access_token: properties                                            *)
(***************************************************************************)

\* C4: single flight.  While no valid credential is cached, concurrent
\* callers of get_access_token() cause one exchange only: no two exchanges
\* are ever in flight at the same time.
C4_SingleFlight ==
    \A t, u \in Tasks :
        (task[t].pc = "tok_post" /\ task[u].pc = "tok_post") => t = u

\* The instant up to which the credential of the last successful exchange
\* (made at t0, reporting lifetime L) is served: t0 + L - 60 s.
GrantDeadline ==
    Val(granted).t0 + (Val(Val(granted).expires_in) - 60) * TicksPerSecond

\* C5: after a successful exchange at t0 reporting lifetime L, a call of
\* get_access_token() made strictly before t0 + L - 60 s returns the token
\* of that exchange at once and sends nothing; a call made at or after that
\* instant sends a new exchange.
C5_CachedUntilExpiry ==
    [][\A t \in Tasks :
        (task[t].pc = "idle" /\ task'[t].op = "token" /\ granted # None) =>
            IF now < GrantDeadline
            THEN /\ task'[t].pc = "done"
                 /\ task'[t].result = "ok"
                 /\ task'[t].value = Val(granted).token
            ELSE task'[t].pc = "tok_post"]_vars

\* C5 witness: one call was served from the cache (it is done, having sent
\* nothing) and, the deadline now reached, another call is exchanging.
C5_Witness ==
    /\ granted # None
    /\ now >= GrantDeadline
    /\ Val(Val(granted).expires_in) > 60
    /\ \E t, u \in Tasks :
        /\ task[t].pc = "done" /\ task[t].result = "ok" /\ task[t].reply = 0
        /\ task[t].value = Val(granted).token
        /\ task[u].pc = "tok_post"

\* C6: when the authorization endpoint answers an exchange with a non-2xx
\* status, get_access_token() fails with an error carrying that status, and
\* the step leaves access_token and token_expires_at as they were.
C6_FailedExchangeKeepsCredential ==
    [][\A t \in Tasks :
        (/\ task[t].pc = "tok_post"
         /\ task'[t].pc # "tok_post"
         /\ task'[t].reply > 0
         /\ task'[t].reply \notin 200..299) =>
            /\ task'[t].pc = "done"
            /\ task'[t].result = "BlizzardAPIError"
            /\ task'[t].status = task'[t].reply
            /\ access_token' = access_token
            /\ token_expires_at' = token_expires_at]_vars

\* C6 witness: a call failed with the 401 the endpoint answered while a
\* credential stored by an earlier exchange is still in place.
C6_Witness ==
    /\ access_token # None
    /\ token_expires_at # None
    /\ \E t \in Tasks :
        /\ task[t].pc = "done"
        /\ task[t].op = "token"
        /\ task[t].reply = 401
        /\ task[t].result = "BlizzardAPIError"
        /\ task[t].status = 401

(***************************************************************************)
(* make_request: properties                                                *)
(***************************************************************************)

\* C7: when every attempt of make_request() hits a network failure, the
\* failure is surfaced only after exactly 3 attempts (3 GETs, a backoff
\* between them): a call that ended on a network failure of its GET has
\* made StopAfterAttempt attempts.
C7_ThreeAttemptsOnNetworkFailure ==
    \A t \in Requesters :
        (task[t].pc = "done" /\ task[t].first = -1) =>
            /\ task[t].attempt = StopAfterAttempt
            /\ task[t].gets = StopAfterAttempt

\* C8 as stated: once a GET was answered 403, the call makes exactly one
\* token exchange and, by the time it ends, exactly one re-issue of the
\* request (two GETs in all).
C8_RefreshAndReissueOnce ==
    \A t \in Requesters :
        task[t].first = 403 =>
            /\ task[t].refreshes = 1
            /\ task[t].pc = "done" => task[t].gets = 2

\* C8: once a GET was answered 403, the credential having been dropped, the
\* call makes exactly one token exchange whatever was cached.  If the
\* exchange succeeds, the request is re-issued exactly once, with the token
\* of that exchange, and the call ends with the outcome of the re-issued
\* request: its body on 200, BlizzardAPIError with its status otherwise (a
\* second 403 included), with no further exchange or GET.  If the exchange
\* fails, the request is not re-issued and the call ends with the error of
\* the exchange.
C8_OneRefreshThenReissueIfGranted ==
    \A t \in Requesters :
        task[t].first = 403 =>
            /\ task[t].refreshes = 1
            /\ task[t].attempt = 1
            /\ task[t].pc \in {"tok_post", "req_retry", "done"}
            /\ task[t].pc = "tok_post" => task[t].gets = 1
            /\ task[t].pc = "req_retry" =>
                    /\ task[t].reply = 200
                    /\ task[t].gets = 2
                    /\ task[t].hdr = task[t].newtok
            /\ (task[t].pc = "done" /\ task[t].reply = 200) =>
                    /\ task[t].gets = 2
                    /\ IF task[t].second = 200
                       THEN task[t].result = "ok"
                       ELSE /\ task[t].result = "BlizzardAPIError"
                            /\ task[t].status = Max(task[t].second, 0)
            /\ (task[t].pc = "done" /\ task[t].reply # 200) =>
                    /\ task[t].gets = 1
                    /\ task[t].result = "BlizzardAPIError"
                    /\ task[t].status = Max(task[t].reply, 0)

\* C8 witness: a call whose GET was answered 403 refreshed the token once,
\* re-issued the request once with the new token, was answered 403 again
\* and ended with that 403.
C8_Witness ==
    \E t \in Requesters :
        /\ task[t].pc = "done"
        /\ task[t].first = 403
        /\ task[t].reply = 200
        /\ task[t].second = 403
        /\ task[t].refreshes = 1
        /\ task[t].gets = 2
        /\ task[t].result = "BlizzardAPIError"
        /\ task[t].status = 403

\* C9: a GET answered 404 ends the call at once with BlizzardAPIError
\* carrying 404, after that one GET, in the first attempt and without a
\* token refresh; a 404 answering the request re-issued after a 403 ends
\* the call at once with the same error and is not retried either.
C9_NotFoundFailsAtOnce ==
    \A t \in Requesters :
        /\ task[t].first = 404 =>
                /\ task[t].pc = "done"
                /\ task[t].result = "BlizzardAPIError"
                /\ task[t].status = 404
                /\ task[t].gets = 1
                /\ task[t].attempt = 1
                /\ task[t].refreshes = 0
        /\ task[t].second = 404 =>
                /\ task[t].pc = "done"
                /\ task[t].result = "BlizzardAPIError"
                /\ task[t].status = 404
                /\ task[t].gets = 2
                /\ task[t].attempt = 1
                /\ task[t].refreshes = 1

\* C9 witness: a call ended with the 404 its only GET was answered.
C9_Witness ==
    \E t \in Requesters :
        /\ task[t].pc = "done"
        /\ task[t].first = 404
        /\ task[t].gets = 1
        /\ task[t].result = "BlizzardAPIError"
        /\ task[t].status = 404

\* C10: a GET answered 429 suspends the call for the time the
\* Retry-After header gives, 60 seconds when the header is absent; the
\* call leaves that sleep only when the time is up, and then ends with
\* BlizzardAPIError carrying 429, having sent no request but the one GET.
C10_RateLimitedSleepsThenFails ==
    [][\A t \in Requesters :
        /\ (task[t].pc = "req_get" /\ task'[t].first = 429) =>
                /\ task'[t].pc = "req_sleep429"
                /\ task'[t].header = None =>
                        task'[t].wake = now + 60 * TicksPerSecond
                /\ \A n \in 0..MaxRetryAfter :
                        task'[t].header = Some(ToString(n)) =>
                            task'[t].wake = now + n * TicksPerSecond
                /\ task'[t].gets = 1
        /\ (task[t].pc = "req_sleep429" /\ task'[t].pc # "req_sleep429") =>
                /\ now >= task[t].wake
                /\ task'[t].pc = "done"
                /\ task'[t].result = "BlizzardAPIError"
                /\ task'[t].status = 429
                /\ task'[t].gets = 1
                /\ task'[t].refreshes = 0]_vars

\* A call whose GET was answered 429 with a date in the Retry-After
\* header has ended with ValueError, and no status.
C10_DateHeader ==
    \E t \in Requesters :
        /\ task[t].pc = "done"
        /\ task[t].first = 429
        /\ task[t].header = Some(HttpDate)
        /\ task[t].gets = 1
        /\ task[t].result = "ValueError"
        /\ task[t].status = 0

\* The status of the last response a finished call of make_request() got.
FinalStatus(tk) == IF tk.second # 0 THEN tk.second ELSE tk.first

\* C11: make_request() returns the body exactly when the final response
\* has a 2xx status; a final status outside 2xx other than 404, 429 and 403
\* ends the call with BlizzardAPIError carrying that status.
C11_BodyIffFinalStatus2xx ==
    \A t \in Requesters :
        (task[t].pc = "done" /\ FinalStatus(task[t]) > 0
            /\ (task[t].first # 403 \/ task[t].second # 0)) =>
            /\ task[t].result = "ok" <=> FinalStatus(task[t]) \in 200..299
            /\ FinalStatus(task[t]) \notin (200..299) \cup {403, 404, 429} =>
                    /\ task[t].result = "BlizzardAPIError"
                    /\ task[t].status = FinalStatus(task[t])

\* C12: every GET of make_request(), the one re-issued after a 403
\* included, follows an admission by RateLimiter.acquire() of its own: a
\* call has never sent more GETs than it was admitted by the limiter.
C12_EveryGetAcquired ==
    \A t \in Requesters : task[t].gets <= task[t].acquired

\* C33: whatever the API answers, a make_request call comes to an end: a
\* call that has started returns or raises, after a number of GETs and
\* token exchanges that is bounded; it neither retries for ever nor waits
\* for ever.
C33_RequestTerminates ==
    \A t \in Requesters :
        (task[t].op = "request" /\ task[t].pc = "acq_lock")
            ~> (task[t].op = "request" /\ task[t].pc = "done")

(***************************************************************************)
(* make_request_with_region: specification and properties                  *)
(***************************************************************************)

\* The client is constructed with what BLIZZARD_REGION holds.
InitRegion ==
    /\ requests = <<>>
    /\ lock = 0
    /\ access_token = None
    /\ token_expires_at = None
    /\ task = [t \in Tasks |-> InitTask]
    /\ admitted = <<>>
    /\ granted = None
    /\ region \in ConfiguredRegions
    /\ base_url = BaseUrl(region)
    /\ reg = [t \in Tasks |-> InitReg]
    /\ InitServer

\* The steps of make_request() inside a call that go on from an answer of
\* the network or from the end of the sleep of line 204.
ReplyStep(t) ==
    \/ TokenReply(t)
    \/ TokenNetworkError(t)
    \/ GetReply(t)
    \/ GetNetworkError(t)
    \/ RetryReply(t)
    \/ RetryNetworkError(t)
    \/ RequestWake(t)

\* The steps of make_request() inside a call.  A task waits for the lock
\* of the limiter only while another holds it in its sleep, or after its
\* own sleep, and that lock is not released again: acquire() admits and
\* refuses in the step of the call, and the sleep of a full window ends
\* in the wait for the lock.
ExecutorStep(t) ==
    \/ AcquireRetry(t)
    \/ ReplyStep(t)

\* The ways make_request_with_region goes on once make_request() ended.
FrameStep(t) ==
    \/ RegionReturns(t)
    \/ RegionRaises(t)
    \/ RegionPasses(t)
    \/ RegionDone(t)

RegionStep(t) ==
    \/ CallRegion(t)
    \/ ExecutorStep(t)
    \/ FrameStep(t)

\* The tasks that call make_request_with_region or a guild method, and
\* the one that does when the calls follow each other.
RegionCallers == {1, 2}
OneCaller == {1}

NextRegion == Tick \/ \E t \in OneCaller : RegionStep(t)

\* Calls of make_request_with_region on one client, one after the other,
\* as time passes.
SpecRegion == InitRegion /\ [][NextRegion]_vars

\* The status make_request() call i of rc ended with: 200, the status of
\* its BlizzardAPIError (0 if it has none), or -1 for an exception that is
\* none (it ends the call, so it is the last outcome of a call with such a
\* result).
StatusOf(rc, i) ==
    IF rc.result \in PassingErrors /\ i = Len(rc.outcomes) THEN -1
    ELSE rc.outcomes[i]

\* C13: a finished call made one make_request() call, or two exactly when
\* it was given no region and the first raised a 403; the second call is
\* made by a frame for the alternate region (us <-> eu); if it succeeds
\* its body is returned, if it fails the error of the first call is
\* raised; a call that did not fall back made its one make_request() call
\* and returned its body if there was one.
C13_FallbackOnceOn403 ==
    \A t \in RegionCallers :
        LET rc == reg[t] IN
        rc.pc = "done" =>
            /\ rc.calls \in {1, 2}
            /\ Len(rc.outcomes) = rc.calls
            /\ Len(rc.detected) = rc.calls
            /\ rc.calls = 2 <=>
                    (rc.detected[1] = None /\ StatusOf(rc, 1) = 403)
            /\ rc.calls = 2 =>
                    /\ rc.detected[2] = Some(AlternateRegion(region))
                    /\ Val(rc.detected[2]) # region
                    /\ StatusOf(rc, 2) = 200 =>
                            (rc.result = "ok" /\ rc.from = 2)
                    /\ StatusOf(rc, 2) # 200 =>
                            /\ rc.result = "BlizzardAPIError"
                            /\ rc.status = 403
                            /\ rc.from = 1
            /\ rc.calls = 1 =>
                    /\ rc.from = 1
                    /\ StatusOf(rc, 1) = 200 <=> rc.result = "ok"

\* A call without region on a client of region us got a 403 before and
\* after the token refresh, and its request to eu was answered 429 with a
\* date for Retry-After: the ValueError of the second make_request() call
\* reached the caller.
C13_AlternateValueError ==
    \E t \in RegionCallers :
        /\ region = "us"
        /\ reg[t].pc = "done"
        /\ reg[t].result = "ValueError"
        /\ reg[t].from = 2
        /\ reg[t].detected = <<None, Some("eu")>>
        /\ Len(reg[t].outcomes) = 2
        /\ reg[t].outcomes[1] = 403
        /\ reg[t].urls = <<BaseUrl("us"), BaseUrl("eu")>>

\* Two tasks call make_request_with_region on one client.  The calls
\* followed begin and end within one tick of the clock, so no sleep of a
\* full window ends in them.
TasksStep(t) ==
    \/ CallRegion(t)
    \/ ReplyStep(t)
    \/ FrameStep(t)

NextRegionTasks == \E t \in RegionCallers : TasksStep(t)

\* Concurrent calls of make_request_with_region on one client.
SpecRegionTasks == InitRegion /\ [][NextRegionTasks]_vars

\* C34: whenever no call of make_request_with_region is in flight on the
\* client, base_url is the URL of the configured region, whatever the
\* interleaving of concurrent calls with different regions.
C34_BaseUrlRestored ==
    (\A t \in RegionCallers : reg[t].pc \in {"idle", "done"})
        => base_url = BaseUrl(region)

\* On a client of region us a call for eu and a call without region have
\* both made their request, the second to the URL the first had switched
\* to, and both are over: base_url is the URL of eu.
C34_LeftOnOtherRegion ==
    /\ region = "us"
    /\ \A t \in RegionCallers : reg[t].pc = "done" /\ reg[t].calls = 1
    /\ reg[1].detected = <<Some("eu")>>
    /\ reg[2].detected = <<None>>
    /\ reg[2].saved = <<>>
    /\ reg[2].urls = <<BaseUrl("eu")>>
    /\ base_url = BaseUrl("eu")

GuildStep(t) ==
    \/ CallGuild(t)
    \/ ExecutorStep(t)
    \/ FrameStep(t)

NextGuild == Tick \/ \E t \in OneCaller : GuildStep(t)

\* Calls of the guild methods on one client, one after the other, as time
\* passes.
SpecGuild == InitRegion /\ [][NextGuild]_vars

\* C35: a call of a guild method hands make_request_with_region a region
\* that is not empty, so it makes one make_request() call only: a 403 ends
\* the call with that error, no request to the alternate region follows,
\* and every request of the call goes to one region.
C35_GuildCallsNeverFallBack ==
    \A t \in RegionCallers :
        LET rc == reg[t] IN
        rc.op \in GuildOps =>
            /\ Len(rc.detected) = 1
            /\ rc.detected[1] # None
            /\ Val(rc.detected[1]) # ""
            /\ rc.calls = 1
            /\ Len(rc.urls) <= 1
            /\ Len(rc.outcomes) <= 1
            /\ (Len(rc.outcomes) = 1 /\ StatusOf(rc, 1) = 403) =>
                    /\ rc.pc = "done"
                    /\ rc.result = "BlizzardAPIError"
                    /\ rc.status = 403

\* A guild call for a realm that is not in the EU list, on a client made
\* with an empty BLIZZARD_REGION: the token exchange of its make_request()
\* was answered 403 (no request went to https://.api.blizzard.com, which
\* no answer comes from), and the call went on with a second
\* make_request() call, whose request went to the us endpoint.
C35_EmptyRegionFallsBack ==
    \E t \in RegionCallers :
        /\ region = ""
        /\ reg[t].op = "get_guild_roster"
        /\ reg[t].realm = "stormrage"
        /\ reg[t].detected = <<None, Some("us")>>
        /\ reg[t].calls = 2
        /\ reg[t].outcomes[1] = 403
        /\ reg[t].urls = <<BaseUrl("us")>>

(***************************************************************************)
(* The historical store: specification and properties                      *)
(***************************************************************************)

\* Records and queries on a store that starts empty, as time passes.
NextStore ==
    \/ StoreHistoricalData
    \/ GetHistoricalTrends
    \/ Advance

SpecStore == Init /\ [][NextStore]_vars

\* The entry of key in the store (the key is in it).
Series(key) == historical_data[IndexOf(historical_data, key)].data_points

\* C14: every series holds at most HISTORY_MAX_ENTRIES points, and they are
\* the most recently recorded min(n, HISTORY_MAX_ENTRIES) points of its
\* key, oldest first; a key has a series once a point was recorded for it.
C14_SeriesIsMostRecentPoints ==
    /\ \A i \in 1..Len(historical_data) :
            LET e == historical_data[i] IN
            /\ Len(e.data_points) <= HISTORY_MAX_ENTRIES
            /\ e.data_points = LastN(recorded[e.key], HISTORY_MAX_ENTRIES)
            /\ Len(e.data_points) =
                    IF Len(recorded[e.key]) < HISTORY_MAX_ENTRIES
                    THEN Len(recorded[e.key]) ELSE HISTORY_MAX_ENTRIES
    /\ \A k \in StoreKeys : recorded[k] # <<>> => HasKey(historical_data, k)

\* More points than the cap were recorded for a key, at different times,
\* and the oldest is gone from its series.
C14_Witness ==
    \E k \in StoreKeys :
        /\ Len(recorded[k]) > HISTORY_MAX_ENTRIES
        /\ HasKey(historical_data, k)
        /\ Len(Series(k)) = HISTORY_MAX_ENTRIES
        /\ recorded[k][1].timestamp # recorded[k][Len(recorded[k])].timestamp
        /\ \A j \in 1..Len(Series(k)) : Series(k)[j] # recorded[k][1]

\* The stored points of the key of the last query whose timestamp lies in
\* the closed interval [now - hours, now], oldest first.
PointsInClosedWindow ==
    IF HasKey(historical_data, trends.key)
    THEN SelectSeq(Series(trends.key),
             LAMBDA dp : /\ FromIsoFormat(dp.timestamp) >=
                               clock - Hours(trends.hours)
                          /\ FromIsoFormat(dp.timestamp) <= clock)
    ELSE <<>>

\* C15: a query uses exactly the stored points of its key in the closed
\* interval [now - h, now], the one at exactly now - h included, oldest
\* first; it reports no data exactly when there is none.
C15_QueryUsesClosedWindow ==
    trends.asked =>
        /\ trends.used = PointsInClosedWindow
        /\ trends.error # "" <=> PointsInClosedWindow = <<>>

\* C16: a query of a key with no series, or with no point inside the time
\* range, answers with an error entry and leaves the store as it was: no
\* entry appears for the key.
C16_NoDataLeavesStore ==
    [][\A key \in StoreKeys, hours \in 1..MaxHours :
         (/\ trends'.asked /\ trends'.key = key /\ trends'.hours = hours
          /\ \/ ~HasKey(historical_data, key)
             \/ RecentPoints(Series(key), clock - Hours(hours)) = <<>>)
         => /\ trends'.error # ""
            /\ trends'.used = <<>>
            /\ historical_data' = historical_data
            /\ HasKey(historical_data', key) = HasKey(historical_data, key)
      ]_vars

\* A key that was never recorded has been queried while another key has a
\* series: the answer is the no-data entry and the key has no series.
C16_Witness ==
    /\ trends.asked
    /\ trends.error = "No historical data available"
    /\ ~HasKey(historical_data, trends.key)
    /\ historical_data # <<>>

\* The series of key before a step, empty when the key has none.
SeriesOrEmpty(hd, key) ==
    IF HasKey(hd, key) THEN hd[IndexOf(hd, key)].data_points ELSE <<>>

\* C32: a store_historical_data call for a key leaves every other key as it
\* was (no entry appears or disappears, and series and metadata are the
\* same), and the series of the key afterwards is a tail of its series
\* before followed by the new point: the points kept have the timestamp,
\* price and quantity and the order they had, one point is added at the
\* end and points leave only from the front.
C32_StoreTouchesOneSeries ==
    [][\A k \in StoreKeys :
         recorded'[k] # recorded[k] =>
            /\ \A other \in StoreKeys \ {k} :
                    /\ HasKey(historical_data', other)
                            = HasKey(historical_data, other)
                    /\ HasKey(historical_data, other) =>
                            historical_data'[IndexOf(historical_data', other)]
                              = historical_data[IndexOf(historical_data, other)]
            /\ HasKey(historical_data', k)
            /\ LET before == SeriesOrEmpty(historical_data, k)
                   after == SeriesOrEmpty(historical_data', k)
                   new == recorded'[k][Len(recorded'[k])]
                   all == Append(before, new)
               IN  /\ Len(after) >= 1
                   /\ Len(after) <= Len(all)
                   /\ after = SubSeq(all, Len(all) - Len(after) + 1, Len(all))
      ]_vars

\* Two keys have a series; one of them got a second point after the other
\* key's point was stored, and the other key's point is as it was recorded.
C32_Witness ==
    \E k \in StoreKeys, other \in StoreKeys :
        /\ k # other
        /\ HasKey(historical_data, k) /\ HasKey(historical_data, other)
        /\ Len(Series(k)) >= 2
        /\ Len(recorded[other]) = 1
        /\ Series(other) = recorded[other]
        /\ FromIsoFormat(Series(k)[Len(Series(k))].timestamp)
                > FromIsoFormat(Series(other)[1].timestamp)

(***************************************************************************)
(* cleanup_old_historical_data: specification and properties               *)
(*                                                                         *)
(* load_historical_data() runs at import (line 272) and makes the store    *)
(* whatever the history file holds, so a series of any length can be in    *)
(* the store a cleanup pass finds.                                         *)
(***************************************************************************)

\* The items of the history file: more than a pass looks at.
LoadedItems == 1..(CleanupTop + 2)

\* The lengths of the series of the history file.
LoadedLengths == 0..(MAX_DATA_POINTS_PER_ITEM + 2)

\* A series of n points of the history file, one per tick, oldest first.
LoadedSeries(n) ==
    [j \in 1..n |-> [timestamp |-> IsoFormat(j), price |-> j, quantity |-> 1]]

\* The store load_historical_data() builds from a history file whose
\* series have the lengths lens.
LoadedStore(lens) ==
    [i \in LoadedItems |->
        [key |-> Key(DefaultRegion, "stormrage", i),
         data_points |-> LoadedSeries(lens[i]),
         last_updated |->
             IF lens[i] = 0 THEN None ELSE Some(IsoFormat(lens[i])),
         item_id |-> Some(i),
         region |-> Some(DefaultRegion),
         realm |-> Some("stormrage")]]

\* The server after import with a history file on disk.
InitLoaded ==
    /\ requests = <<>>
    /\ lock = 0
    /\ access_token = None
    /\ token_expires_at = None
    /\ task = [t \in Tasks |-> InitTask]
    /\ admitted = <<>>
    /\ granted = None
    /\ region = DefaultRegion
    /\ base_url = BaseUrl(region)
    /\ reg = [t \in Tasks |-> InitReg]
    /\ clock = MaxClock
    /\ \E lens \in [LoadedItems -> LoadedLengths] :
            historical_data = LoadedStore(lens)
    /\ recorded = [k \in StoreKeys \cup UpdateKeys |-> <<>>]
    /\ trends = NoTrends
    /\ cleanups = 0
    /\ analysis_cache = [k \in CacheKeys |-> None]
    /\ analysis_cache_ttl = [k \in CacheKeys |-> None]
    /\ puts = [k \in CacheKeys |-> None]
    /\ cached = NoCached
    /\ upd = [t \in Tasks |-> InitUpd]
    /\ history_file = None
    /\ started = 0
    /\ began = None
    /\ filed = NoneFiled
    /\ details = NoDetails
    /\ API_AVAILABLE = TRUE
    /\ credentials = TRUE
    /\ DB_AVAILABLE = FALSE
    /\ AsyncSessionLocal = FALSE
    /\ compensated_sum = FALSE

NextCleanup == CleanupOldHistoricalData

\* Cleanup passes in a row on a loaded store.
SpecCleanup == InitLoaded /\ [][NextCleanup]_vars

\* C17: a cleanup pass that follows a cleanup pass, with no record in
\* between, leaves the store as the first pass left it.
C17_CleanupIdempotent ==
    [][(cleanups >= 1 /\ cleanups' = cleanups + 1) =>
            historical_data' = historical_data]_vars

\* The entries a cleanup pass from hd to hd2 changed.
Changed(hd, hd2) == { i \in 1..Len(hd) : hd2[i] # hd[i] }

\* The entries of hd longer than the cap.
Oversize(hd) ==
    { i \in 1..Len(hd) : Len(hd[i].data_points) > MAX_DATA_POINTS_PER_ITEM }

\* C18: a cleanup pass changes only series that are longer than
\* MAX_DATA_POINTS_PER_ITEM, each to its most recent
\* MAX_DATA_POINTS_PER_ITEM points in the same order; it changes at most
\* CleanupTop series, they are the largest (every oversize series it left
\* alone is no longer than any it changed, and has CleanupTop others at
\* least as long), and it removes and empties none.
C18_CleanupEffect ==
    [][cleanups' = cleanups + 1 =>
        LET hd == historical_data
            hd2 == historical_data'
        IN  /\ Len(hd2) = Len(hd)
            /\ \A i \in 1..Len(hd) :
                    /\ hd2[i].key = hd[i].key
                    /\ hd[i].data_points # <<>> => hd2[i].data_points # <<>>
                    /\ \/ hd2[i] = hd[i]
                       \/ /\ i \in Oversize(hd)
                          /\ hd2[i] = [hd[i] EXCEPT !.data_points =
                                SubSeq(@, Len(@) - MAX_DATA_POINTS_PER_ITEM + 1,
                                       Len(@))]
            /\ Cardinality(Changed(hd, hd2)) <= CleanupTop
            /\ \A j \in Oversize(hd) \ Changed(hd, hd2) :
                    /\ \A i \in Changed(hd, hd2) :
                            Len(hd[j].data_points) <= Len(hd[i].data_points)
                    /\ Cardinality({ i \in 1..Len(hd) \ {j} :
                            Len(hd[i].data_points) >= Len(hd[j].data_points) })
                         >= CleanupTop
    ]_vars

\* After one pass on a loaded store a series has lost its oldest points
\* and holds MAX_DATA_POINTS_PER_ITEM, a series that is too long was left
\* alone, and a series under the cap is as it was loaded.
C18_Witness ==
    /\ cleanups = 1
    /\ \E i, j, k \in 1..Len(historical_data) :
        /\ Len(historical_data[i].data_points) = MAX_DATA_POINTS_PER_ITEM
        /\ historical_data[i].data_points[1].price > 1
        /\ Len(historical_data[j].data_points) > MAX_DATA_POINTS_PER_ITEM
        /\ historical_data[k].data_points # <<>>
        /\ Len(historical_data[k].data_points) < MAX_DATA_POINTS_PER_ITEM

NextBudget ==
    \/ StoreHistoricalData
    \/ CleanupOldHistoricalData
    \/ Advance

\* Records and cleanup passes on a store that starts empty.
SpecBudget == Init /\ [][NextBudget]_vars

\* C36: on a store built from the empty store by store_historical_data and
\* cleanup_old_historical_data calls, a cleanup pass changes nothing;
\* whatever the budget, an estimate above it before the pass is above it
\* after the pass (the estimate of lines 214-220 is 50 bytes for each point
\* in the store).
C36_CleanupFreesNothing ==
    [][cleanups' = cleanups + 1 =>
            /\ historical_data' = historical_data
            /\ \A budget \in 0..MaxRecords :
                    TotalPoints(historical_data) > budget
                        => TotalPoints(historical_data') > budget
      ]_vars

\* Cleanup passes ran on a store in which a series is as long as the
\* store lets it grow, which is the cap of the pass, next to another
\* series.
C36_Witness ==
    /\ cleanups = MaxCleanups
    /\ \E k, other \in StoreKeys :
        /\ k # other
        /\ HasKey(historical_data, k) /\ HasKey(historical_data, other)
        /\ Len(Series(k)) = HISTORY_MAX_ENTRIES
        /\ Len(Series(k)) = MAX_DATA_POINTS_PER_ITEM
        /\ Len(Series(other)) >= 1

(***************************************************************************)
(* The analysis cache: specification and properties                        *)
(***************************************************************************)

NextCache ==
    \/ CacheAnalysis
    \/ GetCachedAnalysis
    \/ Advance

\* Puts and gets on a cache that starts empty, as time passes.
SpecCache == Init /\ [][NextCache]_vars

\* C19: get_cached_analysis(key) returns the value of the last
\* cache_analysis(key, value, ttl) if and only if the time is strictly
\* before the time of that call plus ttl; if the key was never put or the
\* TTL has elapsed it returns None.
C19_CachedUntilTtl ==
    cached.asked =>
        LET put == puts[cached.key] IN
        cached.value =
            IF put # None /\ clock < Val(put).at + Hours(Val(put).ttl_hours)
            THEN Some(Val(put).value)
            ELSE None

\* A get at the very time an entry expires, which is still in the cache:
\* nothing is returned.
C19_Witness ==
    /\ cached.asked
    /\ cached.value = None
    /\ analysis_cache[cached.key] # None
    /\ puts[cached.key] # None
    /\ Val(puts[cached.key]).ttl_hours > 0
    /\ clock = Val(puts[cached.key]).at + Hours(Val(puts[cached.key]).ttl_hours)

(***************************************************************************)
(* update_historical_database: specification and properties                *)
(***************************************************************************)

\* The deployments (lines 38-70 and blizzard_client.py 61-66): the API
\* client imported or not, the credentials of the API set or not, the
\* database services imported or not, a session maker made for a
\* database or not.
Deployments == BOOLEAN \X BOOLEAN \X BOOLEAN \X BOOLEAN

\* The server after import, in any deployment.
InitUpdate ==
    /\ requests = <<>>
    /\ lock = 0
    /\ access_token = None
    /\ token_expires_at = None
    /\ task = [t \in Tasks |-> InitTask]
    /\ admitted = <<>>
    /\ granted = None
    /\ region = DefaultRegion
    /\ base_url = BaseUrl(region)
    /\ reg = [t \in Tasks |-> InitReg]
    /\ InitState
    /\ \E d \in Deployments :
            /\ API_AVAILABLE = d[1]
            /\ credentials = d[2]
            /\ DB_AVAILABLE = d[3]
            /\ AsyncSessionLocal = d[4]
            /\ compensated_sum = FALSE

\* update_historical_database is called with any realms and scope.
CallUpdateOf(t) ==
    CallUpdateWith(t, RealmsArgs, {MinTopItems}, BOOLEAN, MaxUpdates)

UpdateStep(t) ==
    \/ CallUpdateOf(t)
    \/ RealmReply(t)
    \/ RequestRaises(t)
    \/ AuctionsReply(t)
    \/ SnapshotStored(t)
    \/ SessionClosed(t)
    \/ SnapshotRecorded(t)
    \/ UpdateDone(t)

\* The tasks that call update_historical_database.
Updaters == {1}

NextUpdate ==
    \/ Advance
    \/ PredictMarketTrends
    \/ Shutdown
    \/ \E t \in Updaters : UpdateStep(t)

\* Calls of update_historical_database, one at a time, and of
\* predict_market_trends, as time passes, until the server is stopped.
SpecUpdate == InitUpdate /\ [][NextUpdate]_vars

\* C20: a call whose argument realms names more than
\* MAX_REALMS_PER_REQUEST realms, as a comma list or as a special value,
\* is refused before it makes a request, and no call makes requests for
\* more than MAX_REALMS_PER_REQUEST realms.
C20_RealmLimit ==
    \A t \in Updaters :
        /\ upd[t].fetched <= MAX_REALMS_PER_REQUEST
        /\ (upd[t].pc # "idle" /\ upd[t].resolved > MAX_REALMS_PER_REQUEST) =>
                /\ upd[t].calls = 0
                /\ upd[t].pc = "done"
                /\ upd[t].result \in
                        {"too many realms", "rate limit", "api not available"}

\* The store load_historical_data() builds from a history file that an
\* earlier run of the server saved: one point each of more items than the
\* memory limit allows.
SavedStore ==
    [i \in 1..(MaxStoredPoints + 1) |->
        [key |-> Key(DefaultRegion, "stormrage", i),
         data_points |-> <<DataPoint(i, 1, 0)>>,
         last_updated |-> Some(IsoFormat(0)),
         item_id |-> Some(i),
         region |-> Some(DefaultRegion),
         realm |-> Some("stormrage")]]

\* The server after import, in any deployment, with no history file on
\* disk or with a large one.
InitInvocation ==
    /\ requests = <<>>
    /\ lock = 0
    /\ access_token = None
    /\ token_expires_at = None
    /\ task = [t \in Tasks |-> InitTask]
    /\ admitted = <<>>
    /\ granted = None
    /\ region = DefaultRegion
    /\ base_url = BaseUrl(region)
    /\ reg = [t \in Tasks |-> InitReg]
    /\ clock = 0
    /\ historical_data \in {<<>>, SavedStore}
    /\ recorded = [k \in StoreKeys \cup UpdateKeys |-> <<>>]
    /\ trends = NoTrends
    /\ cleanups = 0
    /\ analysis_cache = [k \in CacheKeys |-> None]
    /\ analysis_cache_ttl = [k \in CacheKeys |-> None]
    /\ puts = [k \in CacheKeys |-> None]
    /\ cached = NoCached
    /\ upd = [t \in Tasks |-> InitUpd]
    /\ history_file = None
    /\ started = 0
    /\ began = None
    /\ filed = NoneFiled
    /\ details = NoDetails
    /\ \E d \in Deployments :
            /\ API_AVAILABLE = d[1]
            /\ credentials = d[2]
            /\ DB_AVAILABLE = d[3]
            /\ AsyncSessionLocal = d[4]
            /\ compensated_sum = FALSE

InvocationStep(t) ==
    \/ CallUpdate(t)
    \/ RealmReply(t)
    \/ RequestRaises(t)
    \/ AuctionsReply(t)
    \/ SnapshotStored(t)
    \/ SessionClosed(t)
    \/ SnapshotRecorded(t)

NextInvocation == Advance \/ \E t \in Updaters : InvocationStep(t)

\* One call of update_historical_database, from the call to its return, as
\* time passes.
SpecInvocation == InitInvocation /\ [][NextInvocation]_vars

\* The values of the argument realms of these calls: the default realms,
\* the value the validation refuses together with include_all_items, and
\* a list longer than the realm limit.
RepeatedRealms ==
    { None, Some(<<"all-us">>), Some(CommaList(MAX_REALMS_PER_REQUEST + 1)) }

\* update_historical_database is called again.  The calls are followed
\* into their realm loop until one has begun it; the later ones are
\* followed to the checks that refuse them.
CallAgain(t) ==
    CallUpdateWith(t, RepeatedRealms, {MinTopItems}, BOOLEAN,
                   IF began = None THEN started + 1 ELSE started)

RepeatedStep(t) ==
    \/ CallAgain(t)
    \/ RealmReply(t)
    \/ RequestRaises(t)
    \/ AuctionsReply(t)
    \/ SnapshotStored(t)
    \/ SessionClosed(t)
    \/ SnapshotRecorded(t)
    \/ UpdateDone(t)

NextRepeated ==
    \/ Advance
    \/ Shutdown
    \/ \E t \in Updaters : RepeatedStep(t)

\* Calls of update_historical_database one after the other, as time
\* passes: before, during and after an update.
SpecRepeated == InitUpdate /\ [][NextRepeated]_vars

\* The seconds since the update u' of a step started, at the step.
ElapsedSeconds(u) == (clock' - u.start_time) * SecondsPerTick

\* The realm loop of u has been left.
LoopLeft(u) == u.pc \in {"close", "record", "done"} /\ u.realm_list # <<>>

\* C22: a realm request is made only while the time since the start of
\* the update does not exceed MAX_EXECUTION_TIME; an update stopped by the
\* time check makes no further request and returns its summary, with the
\* outcome of every realm it made requests for and the timeout note.
C22_TimeoutStopsLoop ==
    [][\A t \in Updaters :
        LET u == upd[t]
            v == upd'[t]
        IN  /\ v.fetched > u.fetched =>
                    ElapsedSeconds(v) <= MAX_EXECUTION_TIME
            /\ v.stopped = "timeout" =>
                    /\ LoopLeft(v)
                    /\ v.pc = "done" => v.result = "summary"
                    /\ ElapsedSeconds(v) > MAX_EXECUTION_TIME
                    /\ Len(v.outcomes) = v.fetched
                    /\ v.fetched < Len(v.realm_list)
                    /\ u.stopped = "timeout" => v.outcomes = u.outcomes]_vars

\* An update that returned, stopped by the time check after its second
\* realm, with the outcomes of both.
C22_Witness ==
    \E t \in Updaters :
        /\ upd[t].pc = "done"
        /\ upd[t].result = "summary"
        /\ upd[t].stopped = "timeout"
        /\ Len(upd[t].outcomes) = 2

\* The number of realms of u gone through without an error.
Completed(u) == Len(SelectSeq(u.outcomes, LAMBDA n : n >= 0))

\* The realms of u that failed, in order.
FailedRealms(u) ==
    LET failed == SelectSeq([i \in 1..Len(u.outcomes) |-> i],
                            LAMBDA i : u.outcomes[i] = -1)
    IN  [k \in 1..Len(failed) |-> u.realm_list[failed[k]][2]]

\* C23: a realm that fails is listed in errors and the loop goes on: an
\* update that neither time nor the item limit stopped has gone through
\* every realm of its list; success_count is the number of realms gone
\* through without an error; the update returns its summary.
C23_FailureIsolation ==
    \A t \in Updaters :
        LET u == upd[t] IN
        /\ u.success_count = Completed(u)
        /\ u.errors = FailedRealms(u)
        /\ u.pc \in {"realm", "auctions", "snapshot"} =>
                Len(u.outcomes) = u.idx - 1
        /\ (LoopLeft(u) /\ u.stopped = "") =>
                Len(u.outcomes) = Len(u.realm_list)
        /\ (u.pc = "done" /\ u.realm_list # <<>>) => u.result = "summary"

\* An update that returned after its first realm failed and a later one
\* was stored.
C23_Witness ==
    \E t \in Updaters :
        /\ upd[t].pc = "done"
        /\ upd[t].result = "summary"
        /\ Len(upd[t].outcomes) >= 2
        /\ upd[t].outcomes[1] = -1
        /\ upd[t].outcomes[2] > 0
        /\ upd[t].success_count = Len(upd[t].outcomes) - 1

\* C24: total_items_tracked never exceeds MAX_TOTAL_ITEMS, whatever
\* top_items, include_all_items and the auctions of the realms are, and
\* no realm request is made once it has reached MAX_TOTAL_ITEMS.
C24_TotalItemsBounded ==
    [][\A t \in Updaters :
        /\ upd'[t].total_items_tracked <= MAX_TOTAL_ITEMS
        /\ upd'[t].fetched > upd[t].fetched =>
                upd'[t].total_items_tracked < MAX_TOTAL_ITEMS]_vars

\* An update stopped at MAX_TOTAL_ITEMS exactly, whose last realm was cut
\* to the capacity left.
C24_Witness ==
    \E t \in Updaters :
        LET u == upd[t] IN
        /\ u.pc = "done"
        /\ u.stopped = "item limit"
        /\ u.total_items_tracked = MAX_TOTAL_ITEMS
        /\ u.outcomes[Len(u.outcomes)] \in 1..(u.top_items - 1)

\* C25: the items tracked for one realm never exceed MAX_ITEMS_PER_REALM,
\* whatever top_items is and also with include_all_items.
C25_RealmItemsBounded ==
    \A t \in Updaters :
        \A i \in 1..Len(upd[t].outcomes) :
            upd[t].outcomes[i] <= MAX_ITEMS_PER_REALM

\* C26: a call with include_all_items and realms = "all-us" returns at
\* once, without a request and without a change of the store, of its file
\* or of the time of the last update.
C26_ConflictingScopeRejected ==
    [][\A t \in Updaters :
        (/\ upd[t].pc = "idle"
         /\ upd'[t].pc # "idle"
         /\ upd'[t].include_all_items
         /\ upd'[t].realms = Some(<<"all-us">>)) =>
            /\ upd'[t].pc = "done"
            /\ upd'[t].result \in
                    {"security error", "rate limit", "api not available"}
            /\ upd'[t].calls = 0
            /\ historical_data' = historical_data
            /\ history_file' = history_file
            /\ analysis_cache' = analysis_cache
            /\ cleanups' = cleanups]_vars

\* A call refused for its scope while the store is over its memory limit:
\* the cleanup of the memory check has not run.
C26_Witness ==
    \E t \in Updaters :
        /\ upd[t].pc = "done"
        /\ upd[t].result = "security error"
        /\ upd[t].realms = Some(<<"all-us">>)
        /\ OverMemory(historical_data)

(***************************************************************************)
(* The key of a series                                                     *)
(***************************************************************************)

NextKeys == StoreSeries \/ QuerySeries \/ Advance

\* Records and queries under names of any form, as time passes.
SpecKeys == Init /\ [][NextKeys]_vars

\* C27: the series a record or a query of (region, realm, item id)
\* addresses holds the points recorded with that very tuple, the most
\* recent HISTORY_MAX_ENTRIES of them, and no point recorded with another
\* tuple.
C27_SeriesPerTuple ==
    \A a \in KeyTuples :
        LET key == Key(a[1], a[2], a[3])
            i == IndexOf(historical_data, key)
            series == IF i = 0 THEN <<>> ELSE historical_data[i].data_points
        IN  series = LastN(filed[a], HISTORY_MAX_ENTRIES)

(***************************************************************************)
(* The analytics: specification and properties                             *)
(***************************************************************************)

\* The longest series and the highest price of the snapshots analysed.
MaxSeriesLen == 2
MaxPriceValue == 3

\* A snapshot longer than two windows of the price direction, whose last
\* TrendWindow prices average 10% more than its first, and one whose
\* windows overlap.
RisingPrices == <<10, 10, 10, 10, 10, 12, 11, 11, 11, 11, 11>>
OverlappingPrices == <<10, 20, 30, 40, 50, 60, 70>>

\* Snapshots whose prices rise as they fall, so that the slope of their
\* regression line is 0.  Added one after the other, the terms of line
\* 1352 leave a positive residue of the first and the third, a negative
\* one of the second and none of the other two; a compensated sum leaves
\* none of the first four and a negative one of the fifth.
ResidueLists ==
    { <<0, 0, 1, 0, 0>>, <<3, 0, 0, 0, 3>>, <<0, 3, 3, 3, 0>>,
      <<1, 2, 3, 2, 1>>, <<0, 0, 3, 0, 1, 0>> }

\* Snapshots of three prices: one near its bottom and rising, one near
\* its top and falling, one of equal prices; ones whose position is 0.3
\* and 0.7; ones whose volatility is 0.2, the second with a position of
\* 0.25 and rising; and ones of slope 0 whose volatility exceeds 0.2.
ThresholdLists ==
    { <<0, 4, 1>>, <<4, 0, 3>>, <<4, 4, 4>>,
      <<0, 10, 3>>, <<10, 0, 7>>,
      <<9, 11, 10>>, <<18, 22, 21, 19>>,
      <<9, 11, 9>>, <<4, 0, 4>> }

\* Snapshots of higher prices: the one of the documentation, one of low
\* volatility whose price is near its bottom and rising, and the two
\* above; the ones at the thresholds and the ones of slope 0.
SampleLists ==
    { <<10, 12, 11, 15, 9>>, <<20, 20, 24, 21>>, RisingPrices,
      OverlappingPrices } \cup ThresholdLists \cup ResidueLists

\* The price lists of the snapshots: every list of up to MaxSeriesLen
\* prices in 0..MaxPriceValue, and the samples.
PriceLists ==
    UNION { [1..n -> 0..MaxPriceValue] : n \in 0..MaxSeriesLen }
        \cup SampleLists

\* The entry load_historical_data() builds from a series of these prices
\* of an item in a history file, and the store it builds from a file with
\* one series.
SnapshotEntry(item_id, prices) ==
    [key |-> Key(DefaultRegion, "stormrage", item_id),
     data_points |-> [j \in 1..Len(prices) |-> DataPoint(prices[j], 1, 0)],
     last_updated |-> IF prices = <<>> THEN None ELSE Some(IsoFormat(0)),
     item_id |-> Some(item_id),
     region |-> Some(DefaultRegion),
     realm |-> Some("stormrage")]
SnapshotStore(prices) == << SnapshotEntry(1, prices) >>

\* The price lists of files with two series, the first of item 1: two
\* pairs whose scores are equal as fractions and differ in the last bit
\* of the floats, a pair of a lower and a higher score, and a pair whose
\* first series has one point only.
PricePairs ==
    { << <<0, 5, 6>>, <<2, 6, 3>> >>, << <<0, 0, 1, 2>>, <<1, 6, 2>> >>,
      << <<10, 12, 11, 15, 9>>, <<0, 0, 1, 0, 0>> >>,
      << <<3>>, <<3, 0, 0, 0, 3>> >> }

\* The stores of the snapshots.
SnapshotStores ==
    { SnapshotStore(prices) : prices \in PriceLists }
        \cup { << SnapshotEntry(1, pair[1]), SnapshotEntry(2, pair[2]) >> :
                    pair \in PricePairs }

\* The server after import with such a history file, on an interpreter
\* of either kind.
InitAnalysis ==
    /\ requests = <<>>
    /\ lock = 0
    /\ access_token = None
    /\ token_expires_at = None
    /\ task = [t \in Tasks |-> InitTask]
    /\ admitted = <<>>
    /\ granted = None
    /\ region = DefaultRegion
    /\ base_url = BaseUrl(region)
    /\ reg = [t \in Tasks |-> InitReg]
    /\ clock = 0
    /\ historical_data \in SnapshotStores
    /\ recorded = [k \in StoreKeys \cup UpdateKeys |-> <<>>]
    /\ trends = NoTrends
    /\ cleanups = 0
    /\ analysis_cache = [k \in CacheKeys |-> None]
    /\ analysis_cache_ttl = [k \in CacheKeys |-> None]
    /\ puts = [k \in CacheKeys |-> None]
    /\ cached = NoCached
    /\ upd = [t \in Tasks |-> InitUpd]
    /\ history_file = None
    /\ started = 0
    /\ began = None
    /\ filed = NoneFiled
    /\ details = NoDetails
    /\ API_AVAILABLE = TRUE
    /\ credentials = TRUE
    /\ DB_AVAILABLE = FALSE
    /\ AsyncSessionLocal = FALSE
    /\ compensated_sum \in BOOLEAN

NextAnalysis == GetHistoricalTrends \/ AnalyzeWithDetails \/ Advance

\* Queries and analyses of a loaded snapshot, as time passes.
SpecAnalysis == InitAnalysis /\ [][NextAnalysis]_vars

\* The series of the snapshot with two points or more, which are the ones
\* analysed, and the prices of series i, oldest first.
AnalysedSeries ==
    { i \in 1..Len(historical_data) :
        Len(historical_data[i].data_points) >= 2 }
PricesOf(i) ==
    [j \in 1..Len(historical_data[i].data_points) |->
        historical_data[i].data_points[j].price]
SnapshotPrices == PricesOf(1)

\* The lowest and the highest of a non-empty list of prices.
Lowest(prices) ==
    CHOOSE m \in {prices[j] : j \in 1..Len(prices)} :
        \A j \in 1..Len(prices) : m <= prices[j]
Highest(prices) ==
    CHOOSE m \in {prices[j] : j \in 1..Len(prices)} :
        \A j \in 1..Len(prices) : m >= prices[j]

\* The sign of the least-squares slope of the prices over 0..n-1: that of
\* the sum of (2 i - (n - 1)) * prices[i].
SlopeSign(prices) ==
    SumOf([j \in 1..Len(prices) |->
            (2 * (j - 1) - (Len(prices) - 1)) * prices[j]])

\* The sign of the trend the code computes: that of the slope, and where
\* the slope is 0 that of the residue the float sum of line 1352 leaves
\* on the interpreter that runs the server.
TrendSign(prices) ==
    IF SlopeSign(prices) # 0 THEN SlopeSign(prices)
    ELSE FloatSign(FloatNumerator(prices,
                                  FloatRatio(SumOf(prices), Len(prices))))

\* The current price lies in the bottom 30% of the range and the trend
\* rises; it lies in the top 30% and the trend falls; the volatility
\* exceeds 0.2.
NearBottomRising(prices) ==
    /\ Highest(prices) > Lowest(prices)
    /\ 10 * (prices[Len(prices)] - Lowest(prices))
            < 3 * (Highest(prices) - Lowest(prices))
    /\ SumOf(prices) > 0 /\ TrendSign(prices) > 0
NearTopFalling(prices) ==
    /\ Highest(prices) > Lowest(prices)
    /\ 10 * (prices[Len(prices)] - Lowest(prices))
            > 7 * (Highest(prices) - Lowest(prices))
    /\ SumOf(prices) > 0 /\ TrendSign(prices) < 0
Volatile(prices) ==
    /\ SumOf(prices) > 0
    /\ 5 * Len(prices) * (Highest(prices) - Lowest(prices)) > SumOf(prices)

\* The opportunities analyze_with_details found of series i, and the
\* classifications they give its item.
OpportunitiesOf(i) ==
    { k \in 1..Len(details.opportunities) :
        details.opportunities[k].item_id = Val(historical_data[i].item_id) }
Classified(i) == { details.opportunities[k].type : k \in OpportunitiesOf(i) }

\* C28 as claimed: an analysed item is classified BUY exactly when its
\* position is below 0.3 and its trend positive, SELL exactly when its
\* position is above 0.7 and its trend negative, FLIP whenever its
\* volatility exceeds 0.2, whatever its position; it is given at most one
\* classification.
C28_FlipWheneverVolatile ==
    (details.asked /\ details.error = "") =>
        \A i \in AnalysedSeries :
            LET prices == PricesOf(i) IN
            /\ "BUY" \in Classified(i) <=> NearBottomRising(prices)
            /\ "SELL" \in Classified(i) <=> NearTopFalling(prices)
            /\ "FLIP" \in Classified(i) <=> Volatile(prices)
            /\ Cardinality(OpportunitiesOf(i)) <= 1

\* C28, amended: an analysed item is classified BUY exactly when its
\* position is below 0.3 and its trend positive, SELL exactly when its
\* position is above 0.7 and its trend negative, FLIP exactly when
\* neither holds and its volatility exceeds 0.2, and not at all
\* otherwise; it is given at most one classification, and every
\* opportunity found is of an analysed item.  The trend is the one the
\* code computes.  Of the prices 0, 0, 1, 0, 0, whose slope is 0, a sum
\* of plain additions leaves a positive residue, which makes them a BUY,
\* and of the prices 3, 0, 0, 0, 3 a negative one, which makes them a
\* SELL; a compensated sum leaves none, and both are a FLIP.  The prices
\* 1, 2, 3, 2, 1 are a FLIP either way.
C28_OneClassification ==
    (details.asked /\ details.error = "") =>
        /\ \A i \in AnalysedSeries :
            LET prices == PricesOf(i) IN
            /\ "BUY" \in Classified(i) <=> NearBottomRising(prices)
            /\ "SELL" \in Classified(i) <=> NearTopFalling(prices)
            /\ "FLIP" \in Classified(i) <=>
                    /\ Volatile(prices)
                    /\ ~NearBottomRising(prices)
                    /\ ~NearTopFalling(prices)
            /\ Cardinality(OpportunitiesOf(i)) <= 1
            /\ prices = <<0, 0, 1, 0, 0>> =>
                    Classified(i) = IF compensated_sum THEN {"FLIP"}
                                    ELSE {"BUY"}
            /\ prices = <<3, 0, 0, 0, 3>> =>
                    Classified(i) = IF compensated_sum THEN {"FLIP"}
                                    ELSE {"SELL"}
            /\ prices = <<1, 2, 3, 2, 1>> => Classified(i) = {"FLIP"}
        /\ Len(details.opportunities) <= Cardinality(AnalysedSeries)

\* An item near its bottom, rising and volatile: it is a BUY and not a
\* FLIP.
C28_Witness ==
    /\ details.asked
    /\ details.error = ""
    /\ AnalysedSeries = {1}
    /\ Classified(1) = {"BUY"}
    /\ Volatile(SnapshotPrices)

\* The prices of the points the last query used.
UsedPrices == [j \in 1..Len(trends.used) |-> trends.used[j].price]

\* C29: no query and no analysis of a snapshot of non-negative prices
\* ends in a division by zero, be it empty, of one point, of equal prices
\* or of zeros only.  A query of no points says that there is no data, an
\* analysis of no series of two points that the data is insufficient; a
\* query of zeros only, or of one point, finds the volatility and the
\* trend 0; an analysis of equal prices takes the position for 0.5 and
\* the volatility and the trend for 0, so it finds no opportunity.
C29_NoDivisionByZero ==
    /\ trends.asked =>
        /\ trends.error # "ZeroDivisionError"
        /\ trends.used = <<>> <=> trends.error # ""
        /\ (trends.error = "" /\ SumOf(UsedPrices) = 0) =>
                /\ trends.avg_price = Zero
                /\ trends.price_volatility = Zero
                /\ trends.price_trend = Zero
        /\ (trends.error = "" /\ Len(UsedPrices) = 1) =>
                trends.price_trend = Zero
    /\ details.asked =>
        /\ details.error # "ZeroDivisionError"
        /\ AnalysedSeries = {} <=>
                details.error = "Insufficient historical data"
        /\ details.error = "" =>
                \A i \in AnalysedSeries :
                    Highest(PricesOf(i)) = Lowest(PricesOf(i)) =>
                        Classified(i) = {}

\* A snapshot of zeros only, queried and analysed: both return a result.
C29_Witness ==
    /\ trends.asked
    /\ trends.error = ""
    /\ details.asked
    /\ details.error = ""
    /\ Len(SnapshotPrices) >= 2
    /\ SumOf(SnapshotPrices) = 0

\* C30: the volatility a query returns is (max - min) / average of the
\* prices it used if their average is positive, and 0 otherwise; for the
\* prices 10, 12, 11, 15, 9 it is (15 - 9) / 11.4, which is 10/19.
C30_VolatilityFormula ==
    (trends.asked /\ trends.error = "") =>
        LET prices == UsedPrices
            v == trends.price_volatility
        IN  /\ v.den > 0
            /\ IF SumOf(prices) > 0
               THEN v.num * SumOf(prices) =
                        v.den * Len(prices)
                              * (Highest(prices) - Lowest(prices))
               ELSE v = Zero
            /\ prices = <<10, 12, 11, 15, 9>> =>
                    /\ v = [num |-> 10, den |-> 19]
                    /\ trends.avg_price = [num |-> 57, den |-> 5]

\* A query of the prices 10, 12, 11, 15, 9.
C30_Witness ==
    /\ trends.asked
    /\ trends.error = ""
    /\ UsedPrices = <<10, 12, 11, 15, 9>>

\* The sum of prices[a..b].
WindowSum(prices, a, b) ==
    SumOf([j \in 1..(b - a + 1) |-> prices[a + j - 1]])

\* C31: the trend a query returns for n >= 2 prices is (mean of the last
\* min(5, n) - mean of the first min(5, n)) / mean of the first min(5, n),
\* and 0 if that mean is 0; for one price it is 0; for a list whose last
\* five prices average 10% more than its first five it is 1/10.
C31_TrendFormula ==
    (trends.asked /\ trends.error = "") =>
        LET prices == UsedPrices
            n == Len(prices)
            k == IF n < TrendWindow THEN n ELSE TrendWindow
            first == WindowSum(prices, 1, k)
            last == WindowSum(prices, n - k + 1, n)
            t == trends.price_trend
        IN  /\ t.den > 0
            /\ IF n >= 2 /\ first # 0
               THEN t.num * first = t.den * (last - first)
               ELSE t = Zero
            /\ prices = RisingPrices => t = [num |-> 1, den |-> 10]

\* A query of a list whose last five prices average 11 and whose first
\* five average 10.
C31_Witness ==
    /\ trends.asked
    /\ trends.error = ""
    /\ UsedPrices = RisingPrices
    /\ trends.price_trend = [num |-> 1, den |-> 10]

\* The results of a call that was refused.
Refusals == {"rate limit", "security error", "too many realms"}

\* The step leaves the store to the call of task t it refuses: every
\* series is as it was, or a tail of what it was, nothing is recorded and
\* the time of the last update stands.
RefusedChangesNothing(t) ==
    (upd[t].pc = "idle" /\ upd'[t].pc = "done"
        /\ upd'[t].result \in Refusals) =>
        /\ Len(historical_data') = Len(historical_data)
        /\ \A i \in 1..Len(historical_data) :
            LET before == historical_data[i].data_points
                after == historical_data'[i].data_points
            IN  /\ historical_data'[i].key = historical_data[i].key
                /\ Len(after) <= Len(before)
                /\ after = SubSeq(before,
                                  Len(before) - Len(after) + 1,
                                  Len(before))
        /\ recorded' = recorded
        /\ analysis_cache'[last_update_key]
                = analysis_cache[last_update_key]

\* The step writes the time of the last update.
Stamped ==
    analysis_cache'[last_update_key] # analysis_cache[last_update_key]

\* The step is the one in which the call of task t, under way, returns
\* its summary.
ReturnsSummary(t) ==
    /\ upd[t].pc \notin {"idle", "done"}
    /\ upd'[t].pc = "done"
    /\ upd'[t].result = "summary"
    /\ upd'[t].realm_list # <<>>
    /\ analysis_cache'[last_update_key] = Some(clock)

\* C37 as claimed: a call of update_historical_database refused by the
\* rate check, the parameter validation or the realm limit adds no point
\* to a series and leaves the time of the last update as it was; that
\* time is written only by a call that ran its realm loop to the end,
\* past the last realm of its list.
C37_StampOnlyPastLastRealm ==
    [][\A t \in Updaters :
        /\ RefusedChangesNothing(t)
        /\ Stamped =>
            /\ ReturnsSummary(t)
            /\ upd'[t].idx > Len(upd'[t].realm_list)
            /\ upd'[t].stopped = ""
      ]_vars

\* C37, amended: a call of update_historical_database refused by the rate
\* check, the parameter validation or the realm limit adds no point to a
\* series (every series is as it was, or a tail of what it was) and
\* leaves the time of the last update as it was; that time is written
\* only in the step in which a call that has left its realm loop returns
\* its summary, be it past the last realm or by the break of the time
\* check (line 1022) or of the item limit (line 1027).
C37_RefusedUpdateChangesNothing ==
    [][\A t \in Updaters :
        /\ RefusedChangesNothing(t)
        /\ Stamped =>
            /\ ReturnsSummary(t)
            /\ \/ upd'[t].idx > Len(upd'[t].realm_list)
               \/ upd'[t].stopped \in {"timeout", "item limit"}
      ]_vars

\* An update stopped by the time check before the last realm of its list
\* has written the time of the last update.
C37_StampedAfterBreak ==
    \E t \in Updaters :
        /\ upd[t].pc = "done"
        /\ upd[t].result = "summary"
        /\ upd[t].stopped = "timeout"
        /\ upd[t].idx <= Len(upd[t].realm_list)
        /\ began # None
        /\ analysis_cache[last_update_key] = Some(clock)

\* After an update that stored points and wrote its time, a call made
\* within the minute has been refused by the rate check: the time of the
\* update stands and the series hold what the update recorded.
C37_Witness ==
    \E t \in Updaters :
        /\ upd[t].pc = "done"
        /\ upd[t].result = "rate limit"
        /\ analysis_cache[last_update_key] = Some(clock)
        /\ began # None
        /\ \E k \in UpdateKeys :
                /\ recorded[k] # <<>>
                /\ HasKey(historical_data, k)
                /\ Series(k) = LastN(recorded[k], HISTORY_MAX_ENTRIES)

(***************************************************************************)
(* Concurrent updates                                                      *)
(***************************************************************************)

\* The tasks that call update_historical_database at the same time.
ConcurrentUpdaters == {1, 2}

\* The updates of concurrent callers name two realms and keep the default
\* scope.
ConcurrentStep(t) ==
    \/ CallUpdateWith(t, {Some(CommaList(2))}, {MinTopItems}, {FALSE},
                      MaxUpdates + 1)
    \/ RealmReply(t)
    \/ RequestRaises(t)
    \/ AuctionsReply(t)
    \/ SnapshotStored(t)
    \/ SessionClosed(t)
    \/ SnapshotRecorded(t)
    \/ UpdateDone(t)

NextConcurrent == Advance \/ \E t \in ConcurrentUpdaters : ConcurrentStep(t)

\* Two callers of update_historical_database on one server: a call may be
\* made while the other caller's update awaits a reply.
SpecConcurrent == InitUpdate /\ [][NextConcurrent]_vars

\* A call made less than MIN_SECONDS_BETWEEN_UPDATES after an update
\* entered its realm loop.
CalledSoonAfter(t) ==
    /\ upd[t].pc = "idle"
    /\ upd'[t].pc # "idle"
    /\ began # None
    /\ (clock - Val(began)) * SecondsPerTick < MIN_SECONDS_BETWEEN_UPDATES

\* C21: once an update has passed its rate check and entered its realm
\* loop, every call of update_historical_database made less than
\* MIN_SECONDS_BETWEEN_UPDATES later, also one made while that update is
\* still running, returns the rate-limit message and makes no request.
C21_RateLimitedOnceBegun ==
    [][\A t \in ConcurrentUpdaters :
            CalledSoonAfter(t) =>
                /\ upd'[t].pc = "done"
                /\ upd'[t].result = "rate limit"
                /\ upd'[t].calls = 0]_vars

====
